---- MODULE Spec2Model ----
(***************************************************************************)
(* Model of resume_maker_ai.py: document extraction dispatch, the          *)
(* completion client, the two response recoverers, the text renderer and   *)
(* the background worker / Tk callback pipeline of ResumeMakerApp.         *)
(*                                                                         *)
(* Text is a sequence of tokens.  A token is a record [k, s]:              *)
(*   k = "p"  one punctuation character  { } [ ] : , or a newline          *)
(*   k = "q"  a JSON string literal, s is the text between the quotes      *)
(*   k = "n"  a JSON number literal                                        *)
(*   k = "l"  one of the JSON literals null, true, false                   *)
(*   k = "w"  a run of other characters (no brace, no quote)               *)
(*   k = "a"  a run of letters only (a word); a word that holds a section  *)
(*            header synonym is exactly that synonym, in some letter case  *)
(* Python values are tagged records [t, v].                                *)
(***************************************************************************)
EXTENDS Integers, Sequences, FiniteSets, TLC

\* ---------------------------------------------------------------- bounds
MaxLen == 3
MaxOps == 1
MaxClock == 1
MaxPathLen == 3
MaxLines == 4
MaxInvocations == 2

\* ---------------------------------------------------------------- tokens
P(c) == [k |-> "p", s |-> c]
Q(c) == [k |-> "q", s |-> c]
N(c) == [k |-> "n", s |-> c]
L(c) == [k |-> "l", s |-> c]
W(c) == [k |-> "w", s |-> c]
A(c) == [k |-> "a", s |-> c]

LBRACE == P("{")
RBRACE == P("}")
LBRACK == P("[")
RBRACK == P("]")
COLON  == P(":")
COMMA  == P(",")
NL     == P("\n")
SP     == P(" ")

\* ---------------------------------------------------------- Python values
PStr(s)  == [t |-> "str",  v |-> s]
PList(l) == [t |-> "list", v |-> l]
PDict(d) == [t |-> "dict", v |-> d]
PNum(n)  == [t |-> "num",  v |-> n]
PBool(b) == [t |-> "bool", v |-> b]
PNone    == [t |-> "none", v |-> 0]

\* a one-run string literal of the source code, e.g. "AI-generated optimization"
Lit(c) == PStr(IF c = "" THEN <<>> ELSE <<W(c)>>)

IsStr(x)  == x.t = "str"
IsDict(x) == x.t = "dict"
IsList(x) == x.t = "list"

\* Python truth value of an object
Truthy(x) ==
    CASE x.t = "str"  -> x.v /= <<>>
      [] x.t = "list" -> x.v /= <<>>
      [] x.t = "dict" -> x.v /= <<>>
      [] x.t = "num"  -> x.v /= 0
      [] x.t = "bool" -> x.v
      [] x.t = "none" -> FALSE

\* a dict is the sequence of its <<key, value>> items in insertion order
Keys(d) == {d.v[i][1] : i \in 1..Len(d.v)}
HasKey(d, key) == key \in Keys(d)
KeyIndex(d, key) == CHOOSE i \in 1..Len(d.v) : d.v[i][1] = key
DictItem(d, key) == d.v[KeyIndex(d, key)][2]
DictSet(d, key, val) ==
    IF HasKey(d, key)
    THEN PDict([d.v EXCEPT ![KeyIndex(d, key)] = <<key, val>>])
    ELSE PDict(Append(d.v, <<key, val>>))

\* outcome of a call: exc = "" when it returned val, else the exception raised
Ret(x)   == [exc |-> "", val |-> x]
Raise(e) == [exc |-> e, val |-> PNone]

\* obj.get(key, default)
DictGet(obj, key, default) ==
    IF ~IsDict(obj) THEN Raise("AttributeError")
    ELSE IF HasKey(obj, key) THEN Ret(DictItem(obj, key))
    ELSE Ret(default)

\* obj[0]
Index0(obj) ==
    CASE obj.t = "list" -> IF obj.v = <<>> THEN Raise("IndexError") ELSE Ret(obj.v[1])
      [] obj.t = "str"  -> IF obj.v = <<>> THEN Raise("IndexError") ELSE Ret(PStr(<<obj.v[1]>>))
      [] obj.t = "dict" -> Raise("KeyError")
      [] OTHER          -> Raise("TypeError")

\* ------------------------------------------------------------------ json
NumVal(c) == CASE c = "0" -> 0 [] c = "5" -> 5 [] OTHER -> 1
NumStr(n) == CASE n = 0 -> "0" [] n = 5 -> "5" [] OTHER -> "1"

Fail == [ok |-> FALSE, val |-> PNone, pos |-> 0]
Ok(x, p) == [ok |-> TRUE, val |-> x, pos |-> p]

RECURSIVE ParseValue(_, _), ParseMembers(_, _, _), ParseElements(_, _, _)

\* the JSON value that starts at token i of s, and the position after it
ParseValue(s, i) ==
    IF i > Len(s) THEN Fail
    ELSE LET tok == s[i] IN
         CASE tok.k = "q" -> Ok(Lit(tok.s), i + 1)
           [] tok.k = "n" -> Ok(PNum(NumVal(tok.s)), i + 1)
           [] tok.k = "l" -> Ok(IF tok.s = "null" THEN PNone ELSE PBool(tok.s = "true"), i + 1)
           [] tok = LBRACE -> IF i + 1 <= Len(s) /\ s[i + 1] = RBRACE
                              THEN Ok(PDict(<<>>), i + 2)
                              ELSE ParseMembers(s, i + 1, PDict(<<>>))
           [] tok = LBRACK -> IF i + 1 <= Len(s) /\ s[i + 1] = RBRACK
                              THEN Ok(PList(<<>>), i + 2)
                              ELSE ParseElements(s, i + 1, <<>>)
           [] OTHER -> Fail

\* "key" : value { , "key" : value } "}"   (a repeated key keeps its first
\* position and takes the last value, as a Python dict does)
ParseMembers(s, i, acc) ==
    IF i + 1 > Len(s) THEN Fail
    ELSE IF s[i].k /= "q" \/ s[i + 1] /= COLON THEN Fail
    ELSE LET r == ParseValue(s, i + 2) IN
         IF ~r.ok THEN Fail
         ELSE IF r.pos > Len(s) THEN Fail
         ELSE IF s[r.pos] = RBRACE THEN Ok(DictSet(acc, s[i].s, r.val), r.pos + 1)
         ELSE IF s[r.pos] = COMMA THEN ParseMembers(s, r.pos + 1, DictSet(acc, s[i].s, r.val))
         ELSE Fail

\* value { , value } "]"
ParseElements(s, i, acc) ==
    LET r == ParseValue(s, i) IN
    IF ~r.ok THEN Fail
    ELSE IF r.pos > Len(s) THEN Fail
    ELSE IF s[r.pos] = RBRACK THEN Ok(PList(Append(acc, r.val)), r.pos + 1)
    ELSE IF s[r.pos] = COMMA THEN ParseElements(s, r.pos + 1, Append(acc, r.val))
    ELSE Fail

\* json.loads: the whole text must be one JSON value
json_loads(s) ==
    LET r == ParseValue(s, 1) IN
    IF r.ok /\ r.pos = Len(s) + 1 THEN Ret(r.val) ELSE Raise("JSONDecodeError")

RECURSIVE json_dumps(_), DumpItems(_, _), DumpElems(_, _)

\* json.dumps of a value whose strings are single runs
json_dumps(x) ==
    CASE x.t = "str"  -> <<Q(IF x.v = <<>> THEN "" ELSE x.v[1].s)>>
      [] x.t = "num"  -> <<N(NumStr(x.v))>>
      [] x.t = "bool" -> <<L(IF x.v THEN "true" ELSE "false")>>
      [] x.t = "none" -> <<L("null")>>
      [] x.t = "list" -> <<LBRACK>> \o DumpElems(x.v, 1) \o <<RBRACK>>
      [] x.t = "dict" -> <<LBRACE>> \o DumpItems(x.v, 1) \o <<RBRACE>>

DumpItems(d, i) ==
    IF i > Len(d) THEN <<>>
    ELSE (IF i > 1 THEN <<COMMA>> ELSE <<>>) \o <<Q(d[i][1]), COLON>>
         \o json_dumps(d[i][2]) \o DumpItems(d, i + 1)

DumpElems(l, i) ==
    IF i > Len(l) THEN <<>>
    ELSE (IF i > 1 THEN <<COMMA>> ELSE <<>>) \o json_dumps(l[i]) \o DumpElems(l, i + 1)

\* -------------------------------------------------------------------- re
SetMin(S) == CHOOSE x \in S : \A y \in S : x <= y
SetMax(S) == CHOOSE x \in S : \A y \in S : x >= y

NoMatch == [found |-> FALSE, group |-> <<>>]

\* the search with a lazy quantifier, r'({.*?})': stops at the first '}'
ReSearchBracesLazy(s) ==
    LET opens == {i \in 1..Len(s) : s[i] = LBRACE} IN
    IF opens = {} THEN NoMatch
    ELSE LET closes == {j \in (SetMin(opens) + 1)..Len(s) : s[j] = RBRACE} IN
         IF closes = {} THEN NoMatch
         ELSE [found |-> TRUE, group |-> SubSeq(s, SetMin(opens), SetMin(closes))]

\* re.search(r'({.*})', content, re.DOTALL): leftmost '{', then greedily to
\* the last '}' after it
ReSearchBraces(s) ==
    LET opens == {i \in 1..Len(s) : s[i] = LBRACE} IN
    IF opens = {} THEN NoMatch
    ELSE LET closes == {j \in (SetMin(opens) + 1)..Len(s) : s[j] = RBRACE} IN
         IF closes = {} THEN NoMatch
         ELSE [found |-> TRUE, group |-> SubSeq(s, SetMin(opens), SetMax(closes))]

\* ------------------------------------------------------ response recovery
\* response.get('choices', [{}])[0].get('message', {}).get('content', '')
ExtractContent(response) ==
    LET a == DictGet(response, "choices", PList(<<PDict(<<>>)>>)) IN
    IF a.exc /= "" THEN a
    ELSE LET b == Index0(a.val) IN
         IF b.exc /= "" THEN b
         ELSE LET c == DictGet(b.val, "message", PDict(<<>>)) IN
              IF c.exc /= "" THEN c
              ELSE DictGet(c.val, "content", Lit(""))

\* the fallback built from the matched substring's placeholder instead of the reply text
OptimizationFallbackLosingText(content) ==
    PDict(<< <<"optimized_content", Lit("")>>,
             <<"improvements", PList(<<Lit("AI-generated optimization")>>)>>,
             <<"suggestions", PList(<<Lit("Review the optimized resume carefully")>>)>> >>)

OptimizationFallback(content) ==
    PDict(<< <<"optimized_content", content>>,
             <<"improvements", PList(<<Lit("AI-generated optimization")>>)>>,
             <<"suggestions", PList(<<Lit("Review the optimized resume carefully")>>)>> >>)

OptimizationErrorFallback ==
    PDict(<< <<"optimized_content", Lit("Error processing AI response. Please try again.")>>,
             <<"improvements", PList(<<>>)>>,
             <<"suggestions", PList(<<Lit("The AI service encountered an issue. Please try again.")>>)>> >>)

\* the try block of _process_optimization_response
OptimizationTry(response) ==
    LET c == ExtractContent(response) IN
    IF c.exc /= "" THEN c
    ELSE IF ~IsStr(c.val) THEN Raise("TypeError")
    ELSE LET json_match == ReSearchBraces(c.val.v) IN
         IF json_match.found
         THEN LET result == json_loads(json_match.group) IN
              IF result.exc = "" THEN Ret(result.val)
              ELSE Ret(OptimizationFallback(c.val))
         ELSE Ret(OptimizationFallback(c.val))

\* the recoverer without its outer except clause
ProcessOptimizationUnguarded(response) == OptimizationTry(response)

_process_optimization_response(response) ==
    LET r == OptimizationTry(response) IN
    IF r.exc /= "" THEN Ret(OptimizationErrorFallback) ELSE r

GenerationFallback(content) ==
    PDict(<< <<"summary", Lit("Professional Summary (AI-generated)")>>,
             <<"experience", content>>,
             <<"education", Lit("")>>,
             <<"skills", Lit("")>>,
             <<"additional", Lit("Review and edit this AI-generated content.")>> >>)

GenerationErrorFallback ==
    PDict(<< <<"summary", Lit("Error processing AI response. Please try again.")>>,
             <<"experience", Lit("")>>,
             <<"education", Lit("")>>,
             <<"skills", Lit("")>>,
             <<"additional", Lit("The AI service encountered an issue. Please try again.")>> >>)

\* the try block that returns the decoded object without looking for content
GenerationTryKeepingWrapper(response) ==
    LET c == ExtractContent(response) IN
    IF c.exc /= "" THEN c
    ELSE IF ~IsStr(c.val) THEN Raise("TypeError")
    ELSE LET json_match == ReSearchBraces(c.val.v) IN
         IF json_match.found
         THEN LET result == json_loads(json_match.group) IN
              IF result.exc = "" THEN Ret(result.val)
              ELSE Ret(GenerationFallback(c.val))
         ELSE Ret(GenerationFallback(c.val))

\* the try block of _process_generation_response
GenerationTry(response) ==
    LET c == ExtractContent(response) IN
    IF c.exc /= "" THEN c
    ELSE IF ~IsStr(c.val) THEN Raise("TypeError")
    ELSE LET json_match == ReSearchBraces(c.val.v) IN
         IF json_match.found
         THEN LET result == json_loads(json_match.group) IN
              IF result.exc = ""
              THEN IF HasKey(result.val, "content")
                   THEN Ret(DictItem(result.val, "content"))
                   ELSE Ret(result.val)
              ELSE Ret(GenerationFallback(c.val))
         ELSE Ret(GenerationFallback(c.val))

_process_generation_response(response) ==
    LET r == GenerationTry(response) IN
    IF r.exc /= "" THEN Ret(GenerationErrorFallback) ELSE r

\* ------------------------------------------------------- completion replies
OptKeys == <<"optimized_content", "improvements", "suggestions">>
GenKeys == <<"summary", "experience", "education", "skills", "additional">>

SeqRange(q) == {q[i] : i \in 1..Len(q)}

\* the value a schema-conformant reply carries under each key
GoodValue(key) ==
    CASE key = "optimized_content" -> Lit("X")
      [] key = "improvements"      -> PList(<<Lit("a")>>)
      [] key = "suggestions"       -> PList(<<Lit("b")>>)
      [] key = "summary"           -> Lit("S")
      [] key = "experience"        -> Lit("E")
      [] key = "education"         -> Lit("D")
      [] key = "skills"            -> Lit("K")
      [] key = "additional"        -> Lit("A")

\* values a model may put where the schema asks for something else
OddValues ==
    { PList(<<Lit("a")>>), PList(<<>>), PNum(5), PNum(0), PNone, PBool(TRUE),
      Lit(""), Lit("X"), PDict(<<>>), PDict(<< <<"k", Lit("v")>> >>) }

RECURSIVE SelectKeys(_, _, _)
\* the items of keys (in order) that are in the set keep
SelectKeys(keys, keep, i) ==
    IF i > Len(keys) THEN <<>>
    ELSE (IF keys[i] \in keep THEN << <<keys[i], GoodValue(keys[i])>> >> ELSE <<>>)
         \o SelectKeys(keys, keep, i + 1)

\* objects carrying any subset of the schema keys, and complete objects with
\* one value of another type
ObjectsOver(keys) ==
    { PDict(SelectKeys(keys, keep, 1)) : keep \in SUBSET SeqRange(keys) }
    \cup { DictSet(PDict(SelectKeys(keys, SeqRange(keys), 1)), key, odd) :
             key \in SeqRange(keys), odd \in OddValues }

OptObjects == ObjectsOver(OptKeys)
GenObjects == ObjectsOver(GenKeys)
NestedObjects == { PDict(<< <<"content", g>> >>) : g \in GenObjects \cup OddValues }
ReplyObjects == OptObjects \cup GenObjects \cup NestedObjects

\* commentary a model may put before and after the JSON object
Preambles  == { <<>>, <<W("Sure, here it is")>>, <<W("using"), LBRACE, W("x"), RBRACE>> }
Postambles == { <<>>, <<W("Hope this helps")>>, <<W("see"), LBRACE, W("y"), RBRACE>> }

RawAlphabet ==
    { LBRACE, RBRACE, LBRACK, RBRACK, COLON, COMMA,
      Q("optimized_content"), Q("content"), N("5"), W("plain text") }

\* every text of at most MaxLen tokens over RawAlphabet
RawTexts == UNION { [1..n -> RawAlphabet] : n \in 0..MaxLen }

JsonReply(o, a, b) ==
    [kind |-> "json", obj |-> o, pre |-> a, post |-> b, text |-> a \o json_dumps(o) \o b]
RawReply(t) == [kind |-> "raw", obj |-> PNone, pre |-> <<>>, post |-> <<>>, text |-> t]

JsonReplies == { JsonReply(o, a, b) : o \in ReplyObjects, a \in Preambles, b \in Postambles }
RawReplies == { RawReply(t) : t \in RawTexts }

\* the chat-completion envelope around a message content value
Envelope(content) ==
    PDict(<< <<"choices",
               PList(<< PDict(<< <<"message", PDict(<< <<"content", content>> >>)>> >>) >>)>> >>)

\* envelopes that carry no reply text
BareEnvelopes ==
    ( "no_choices"    :> PDict(<< <<"id", Lit("gen-1")>> >>) ) @@
    ( "empty_choices" :> PDict(<< <<"choices", PList(<<>>)>> >>) ) @@
    ( "null_choices"  :> PDict(<< <<"choices", PNone>> >>) ) @@
    ( "no_message"    :> PDict(<< <<"choices", PList(<<PDict(<<>>)>>)>> >>) ) @@
    ( "null_message"  :> PDict(<< <<"choices", PList(<<PDict(<< <<"message", PNone>> >>)>>)>> >>) ) @@
    ( "no_content"    :> PDict(<< <<"choices", PList(<<PDict(<< <<"message", PDict(<<>>)>> >>)>>)>> >>) ) @@
    ( "null_content"  :> Envelope(PNone) ) @@
    ( "list_content"  :> Envelope(PList(<<Lit("X")>>)) ) @@
    ( "not_a_dict"    :> PList(<<>>) )

NoReply(kind) == [kind |-> kind, obj |-> PNone, pre |-> <<>>, post |-> <<>>, text |-> <<>>]

\* what the endpoint sent, and the parsed body the client hands on
Exchange(r) == [sent |-> r, body |-> Envelope(PStr(r.text))]
BareExchange(kind) == [sent |-> NoReply(kind), body |-> BareEnvelopes[kind]]

Exchanges ==
    { Exchange(r) : r \in JsonReplies \cup RawReplies }
    \cup { BareExchange(kind) : kind \in DOMAIN BareEnvelopes }

FullOpt == PDict(SelectKeys(OptKeys, SeqRange(OptKeys), 1))
FullGen == PDict(SelectKeys(GenKeys, SeqRange(GenKeys), 1))

\* the exchanges tried in the whole application
AppExchanges ==
    { Exchange(JsonReply(FullOpt, <<>>, <<>>)),
      Exchange(JsonReply(PDict(<< <<"content", FullGen>> >>), <<>>, <<>>)),
      Exchange(JsonReply(DictSet(FullGen, "skills", PList(<<Lit("a")>>)), <<>>, <<>>)),
      Exchange(JsonReply(DictSet(FullOpt, "optimized_content", PList(<<>>)), <<>>, <<>>)),
      Exchange(JsonReply(PDict(<< <<"content", PNone>> >>), <<>>, <<>>)),
      Exchange(RawReply(<<W("plain text")>>)),
      BareExchange("empty_choices") }

\* ------------------------------------------------------------------ state
VARIABLES
    env_key,             \* the OPENROUTER_API_KEY configuration value of the environment
    OPENROUTER_API_KEY,  \* the module global read from it at import
    pc,                  \* position of the background worker
    op,                  \* "optimize", "generate" or "none"
    http_requests,       \* number of POSTs issued
    http_response,       \* the last HTTP outcome: [failure, status, text]
    sent,                \* what the endpoint replied (kept to state the claims)
    response,            \* the parsed body returned by _make_api_request
    result,              \* return of the recoverer: [exc, val], exc = "unset" before
    e,                   \* the exception bound by the worker's except clause
    scheduled,           \* the callbacks the worker has passed to self.after, in order
    clock,               \* the wall clock, in seconds
    files,               \* the output directory: path -> text written
    output_path,         \* the worker's output path
    after_queue,         \* callbacks scheduled with self.after, in order
    progress_open,       \* the modal progress dialog exists
    dialog,              \* the message box shown last
    preview,             \* content of the preview tab
    tab,                 \* selected tab
    callback_exc,        \* exception raised by the last Tk callback, "" if none
    ops,                 \* workers started so far
    resume_file_path,    \* attributes set by _upload_resume (NoAttr before)
    resume_content,
    resume_sections,
    optimize_button,     \* state of the two buttons of the Optimize tab
    preview_optimize_button,
    reader_calls,        \* functions invoked by the last parse_document
    file_read,           \* what the file of the last upload held (nothing readable before any)
    job_description,     \* what _optimize_resume read from the job text box
    user_info,           \* what _collect_user_info returned
    prompt               \* the prompt built for the completion request

coreVars == <<pc, op, http_requests, http_response, sent, response, result, e, scheduled>>
fileVars == <<clock, files, output_path>>
uiVars   == <<after_queue, progress_open, dialog, preview, tab, callback_exc, ops>>
keyVars  == <<env_key, OPENROUTER_API_KEY>>
docVars  == <<resume_file_path, resume_content, resume_sections, optimize_button, preview_optimize_button,
             reader_calls, file_read>>

askVars  == <<job_description, user_info, prompt>>

vars == <<keyVars, coreVars, fileVars, uiVars, docVars, askVars>>

Unset   == [exc |-> "unset", val |-> PNone]
Unbound == [type |-> "", msg |-> <<>>]
NoHttp  == [failure |-> "", status |-> 0, text |-> <<>>]
NoPath  == [name |-> "", ts |-> 0]
NoAttr  == [t |-> "unset", v |-> 0]
NoFile  == [ok |-> FALSE, pages |-> <<>>, text |-> <<>>]
NoDialog == [kind |-> "", title |-> "", text |-> <<>>, path |-> NoPath]

\* ------------------------------------------------------ completion client
StatusStr(n) ==
    CASE n = 200 -> "200" [] n = 201 -> "201" [] n = 204 -> "204"
      [] n = 401 -> "401" [] n = 429 -> "429" [] n = 500 -> "500" [] OTHER -> "0"

Statuses == {200, 201, 204, 401, 429, 500}
ErrorBodies == { <<>>, <<LBRACE, Q("error"), COLON, Q("rate limited"), RBRACE>> }

NoExchange(kind) == [sent |-> NoReply(kind), body |-> PNone]

\* what the network layer can answer to one POST
HttpOutcomes(exchanges) ==
    { [failure |-> f, status |-> 0, text |-> <<>>, x |-> NoExchange("none")] :
        f \in {"ConnectionError", "Timeout"} }
    \cup { [failure |-> "", status |-> n, text |-> t, x |-> NoExchange("none")] :
             n \in Statuses \ {200}, t \in ErrorBodies }
    \cup { [failure |-> "", status |-> 200, text |-> <<W("<html>")>>, x |-> NoExchange("bad_body")] }
    \cup { [failure |-> "", status |-> 200, text |-> <<>>, x |-> x] : x \in exchanges }

\* the client without its credential check
CredentialNeverMissing == FALSE

\* if not OPENROUTER_API_KEY, line 290
CredentialMissing == OPENROUTER_API_KEY = ""

\* a client that takes every 2xx status for a success
RequestFailedOutside2xx(status) == status < 200 \/ status >= 300

\* a client that lets every status below 500 through
RequestFailedOnServerErrorOnly(status) == status >= 500

\* if response.status_code != 200, line 317
RequestFailed(status) == status /= 200

\* a client that tries once more after a network failure
PostsWithRetry(outcome) == IF outcome.failure /= "" THEN 2 ELSE 1

\* the POSTs one call issues: requests.post is called once, outside any loop
\* (lines 309-314), whatever the outcome
Posts(outcome) == 1

\* _make_api_request behind optimize_resume / generate_resume_from_info; an
\* exception leaves the caller's try block and is bound as e by the worker
MakeApiRequest(exchanges) ==
    /\ pc = "request"
    /\ IF CredentialMissing
       THEN /\ e' = [type |-> "ValueError", msg |-> <<W("OpenRouter API key is not set")>>]
            /\ pc' = "except"
            /\ UNCHANGED <<http_requests, http_response, sent, response>>
       ELSE \E o \in HttpOutcomes(exchanges) :
            /\ http_requests' = http_requests + Posts(o)
            /\ http_response' = [failure |-> o.failure, status |-> o.status, text |-> o.text]
            /\ IF o.failure /= ""
               THEN /\ e' = [type |-> o.failure, msg |-> <<W(o.failure)>>]
                    /\ pc' = "except"
                    /\ UNCHANGED <<sent, response>>
               ELSE IF RequestFailed(o.status)
               THEN /\ e' = [type |-> "ValueError",
                             msg |-> <<W("API request failed: "), N(StatusStr(o.status)), W(" - ")>>
                                     \o o.text]
                    /\ pc' = "except"
                    /\ UNCHANGED <<sent, response>>
               ELSE IF o.x.sent.kind = "bad_body"
               THEN /\ e' = [type |-> "JSONDecodeError", msg |-> <<W("Expecting value")>>]
                    /\ pc' = "except"
                    /\ UNCHANGED <<sent, response>>
               ELSE /\ sent' = o.x.sent
                    /\ response' = o.x.body
                    /\ pc' = "recover"
                    /\ UNCHANGED e
    /\ UNCHANGED <<op, scheduled, result, keyVars, fileVars, uiVars, docVars, askVars>>

\* ------------------------------------------------------- recovery actions
\* optimize_resume, line 248
RecoverOptimization ==
    /\ pc = "recover"
    /\ op = "optimize"
    /\ result' = _process_optimization_response(response)
    /\ pc' = "render"
    /\ UNCHANGED <<op, scheduled, http_requests, http_response, sent, response, e, keyVars, fileVars, uiVars, docVars, askVars>>

\* generate_resume_from_info, line 273
RecoverGeneration ==
    /\ pc = "recover"
    /\ op = "generate"
    /\ result' = _process_generation_response(response)
    /\ pc' = "render"
    /\ UNCHANGED <<op, scheduled, http_requests, http_response, sent, response, e, keyVars, fileVars, uiVars, docVars, askVars>>

\* ------------------------------------------------------------- rendering
Upper(c) ==
    CASE c = "summary" -> "SUMMARY" [] c = "experience" -> "EXPERIENCE"
      [] c = "education" -> "EDUCATION" [] c = "skills" -> "SKILLS"
      [] c = "additional" -> "ADDITIONAL" [] c = "content" -> "CONTENT"
      [] c = "optimized_content" -> "OPTIMIZED_CONTENT"
      [] c = "improvements" -> "IMPROVEMENTS" [] c = "suggestions" -> "SUGGESTIONS"
      [] c = "k" -> "K" [] OTHER -> c

Dashes20 == W("--------------------")
Dashes40 == W("----------------------------------------")
Attribution == W("Made with (heart) by robbie09 & lilian09")

\* the message of the TypeError raised by  content + "\n\n"
ConcatTypeError(x) ==
    IF x.t = "list" THEN <<W("can only concatenate list (not \"str\") to list")>>
    ELSE <<W("unsupported operand type(s) for +: "), W(x.t), W(" and 'str'")>>

RECURSIVE SectionLoopKeepingEmpty(_, _, _)
\* the loop without its test on the section body
SectionLoopKeepingEmpty(items, i, acc) ==
    IF i > Len(items) THEN [exc |-> "", val |-> PStr(acc), msg |-> <<>>]
    ELSE IF items[i][1] /= "suggestions" /\ items[i][1] /= "improvements"
    THEN IF ~IsStr(items[i][2])
         THEN [exc |-> "TypeError", val |-> PNone, msg |-> ConcatTypeError(items[i][2])]
         ELSE SectionLoopKeepingEmpty(items, i + 1,
                  acc \o <<W(Upper(items[i][1])), NL, Dashes20, NL>> \o items[i][2].v \o <<NL, NL>>)
    ELSE SectionLoopKeepingEmpty(items, i + 1, acc)

RECURSIVE SectionLoop(_, _, _)
\* the loop over resume_content.items() of generate_text_resume (and of
\* _generation_complete): the text appended so far, or the exception
SectionLoop(items, i, acc) ==
    IF i > Len(items) THEN [exc |-> "", val |-> PStr(acc), msg |-> <<>>]
    ELSE IF Truthy(items[i][2]) /\ items[i][1] /= "suggestions" /\ items[i][1] /= "improvements"
    THEN IF ~IsStr(items[i][2])
         THEN [exc |-> "TypeError", val |-> PNone, msg |-> ConcatTypeError(items[i][2])]
         ELSE SectionLoop(items, i + 1,
                  acc \o <<W(Upper(items[i][1])), NL, Dashes20, NL>> \o items[i][2].v \o <<NL, NL>>)
    ELSE SectionLoop(items, i + 1, acc)

\* text_output of generate_text_resume, lines 201-213
TextOutput(content_map) ==
    LET body == IF IsDict(content_map) THEN SectionLoop(content_map.v, 1, <<>>)
                ELSE [exc |-> "", val |-> PStr(<<>>), msg |-> <<>>]
    IN IF body.exc /= "" THEN body
       ELSE [exc |-> "", val |-> PStr(body.val.v \o <<NL, Dashes40, NL, Attribution>>), msg |-> <<>>]

OutputName == IF op = "generate" THEN "Generated_Resume" ELSE "Optimized_Resume"

\* get_output_dir, the timestamped path and generate_text_resume in the worker
\* (generate_thread 1255-1259, optimize_thread 1329-1333)
RenderResume ==
    /\ pc = "render"
    /\ \E io \in {"ok", "makedirs fails", "open fails"} :
         LET path == [name |-> OutputName, ts |-> clock]
             text == TextOutput(result.val)
         IN IF io = "makedirs fails"
            THEN /\ e' = [type |-> "OSError", msg |-> <<W("cannot create output directory")>>]
                 /\ pc' = "except"
                 /\ UNCHANGED <<files, output_path>>
            ELSE IF text.exc /= ""
            THEN /\ e' = [type |-> text.exc, msg |-> text.msg]
                 /\ pc' = "except"
                 /\ output_path' = path
                 /\ UNCHANGED files
            ELSE IF io = "open fails"
            THEN /\ e' = [type |-> "OSError", msg |-> <<W("cannot open output file")>>]
                 /\ pc' = "except"
                 /\ output_path' = path
                 /\ UNCHANGED files
            ELSE /\ files' = {f \in files : f.path /= path} \cup {[path |-> path, text |-> text.val.v]}
                 /\ output_path' = path
                 /\ pc' = "notify"
                 /\ UNCHANGED e
    /\ UNCHANGED <<op, scheduled, http_requests, http_response, sent, response, result, clock, keyVars, uiVars, docVars, askVars>>

Callback(fn, o, res, path) == [fn |-> fn, op |-> o, result |-> res, path |-> path]

\* self.after(100, lambda: self._generation_complete / _optimization_complete(...))
ScheduleComplete ==
    /\ pc = "notify"
    /\ after_queue' = Append(after_queue, Callback("complete", op, result.val, output_path))
    /\ scheduled' = Append(scheduled, "complete")
    /\ pc' = "finally"
    /\ UNCHANGED <<op, http_requests, http_response, sent, response, result, e, keyVars, fileVars,
                   progress_open, dialog, preview, tab, callback_exc, ops, docVars, askVars>>

\* an except clause that schedules the completion callback as well
ScheduleErrorAndComplete ==
    /\ pc = "except"
    /\ after_queue' = after_queue \o <<Callback("showerror", op, PNone, NoPath),
                                        Callback("complete", op, result.val, output_path)>>
    /\ scheduled' = scheduled \o <<"showerror", "complete">>
    /\ pc' = "except exit"
    /\ UNCHANGED <<op, http_requests, http_response, sent, response, result, e, keyVars, fileVars,
                   progress_open, dialog, preview, tab, callback_exc, ops, docVars, askVars>>

\* the except clause of the worker: schedules the error box, whose lambda reads
\* e when it runs
ScheduleError ==
    /\ pc = "except"
    /\ after_queue' = Append(after_queue, Callback("showerror", op, PNone, NoPath))
    /\ scheduled' = Append(scheduled, "showerror")
    /\ pc' = "except exit"
    /\ UNCHANGED <<op, http_requests, http_response, sent, response, result, e, keyVars, fileVars,
                   progress_open, dialog, preview, tab, callback_exc, ops, docVars, askVars>>

\* an except clause that ends the thread, with no finally after it
ExitExceptEndingThread ==
    /\ pc = "except exit"
    /\ e' = Unbound
    /\ pc' = "idle"
    /\ UNCHANGED <<op, scheduled, http_requests, http_response, sent, response, result, keyVars, fileVars,
                   uiVars, docVars, askVars>>

\* leaving the except clause unbinds e
ExitExcept ==
    /\ pc = "except exit"
    /\ e' = Unbound
    /\ pc' = "finally"
    /\ UNCHANGED <<op, scheduled, http_requests, http_response, sent, response, result, keyVars, fileVars,
                   uiVars, docVars, askVars>>

\* the finally clause of the worker, after which the thread ends
ScheduleDestroy ==
    /\ pc = "finally"
    /\ after_queue' = Append(after_queue, Callback("destroy", op, PNone, NoPath))
    /\ scheduled' = Append(scheduled, "destroy")
    /\ pc' = "idle"
    /\ UNCHANGED <<op, http_requests, http_response, sent, response, result, e, keyVars, fileVars,
                   progress_open, dialog, preview, tab, callback_exc, ops, docVars, askVars>>

\* the wall clock advances
Tick ==
    /\ clock < MaxClock
    /\ clock' = clock + 1
    /\ UNCHANGED <<keyVars, coreVars, files, output_path, uiVars, docVars, askVars>>

\* ------------------------------------------------------------ Tk callbacks
RECURSIVE PyRepr(_), ReprElems(_, _), ReprItems(_, _)

\* repr(x)
PyRepr(x) ==
    CASE x.t = "str"  -> <<P("'")>> \o x.v \o <<P("'")>>
      [] x.t = "num"  -> <<N(NumStr(x.v))>>
      [] x.t = "bool" -> <<W(IF x.v THEN "True" ELSE "False")>>
      [] x.t = "none" -> <<W("None")>>
      [] x.t = "list" -> <<LBRACK>> \o ReprElems(x.v, 1) \o <<RBRACK>>
      [] x.t = "dict" -> <<LBRACE>> \o ReprItems(x.v, 1) \o <<RBRACE>>

ReprElems(l, i) ==
    IF i > Len(l) THEN <<>>
    ELSE (IF i > 1 THEN <<COMMA>> ELSE <<>>) \o PyRepr(l[i]) \o ReprElems(l, i + 1)

ReprItems(d, i) ==
    IF i > Len(d) THEN <<>>
    ELSE (IF i > 1 THEN <<COMMA>> ELSE <<>>) \o <<P("'"), W(d[i][1]), P("'"), COLON>>
         \o PyRepr(d[i][2]) \o ReprItems(d, i + 1)

\* str(x)
PyStr(x) == IF IsStr(x) THEN x.v ELSE PyRepr(x)

Built(text) == [exc |-> "", val |-> PStr(text), msg |-> <<>>]
Thrown(exc) == [exc |-> exc, val |-> PNone, msg |-> <<>>]

\* the items a for loop takes from x
Iterate(x) ==
    CASE x.t = "list" -> Ret(x)
      [] x.t = "str"  -> Ret(PList([i \in 1..Len(x.v) |-> PStr(<<x.v[i]>>)]))
      [] x.t = "dict" -> Ret(PList([i \in 1..Len(x.v) |-> Lit(x.v[i][1])]))
      [] OTHER        -> Raise("TypeError")

RECURSIVE Bullets(_, _)
Bullets(l, i) ==
    IF i > Len(l) THEN <<>> ELSE <<W("- ")>> \o PyStr(l[i]) \o <<NL>> \o Bullets(l, i + 1)

\* one of the two list blocks of _optimization_complete appended to acc
ListBlock(res, key, header, acc) ==
    IF HasKey(res, key) /\ Truthy(DictItem(res, key))
    THEN LET it == Iterate(DictItem(res, key)) IN
         IF it.exc /= "" THEN Thrown(it.exc)
         ELSE Built(acc \o <<W(header), NL, Dashes20, NL>> \o Bullets(it.val.v, 1) \o <<NL>>)
    ELSE Built(acc)

\* the preview without its two list blocks
OptimizationPreviewWithoutLists(res) ==
    IF ~IsDict(res) THEN Built(PyStr(res))
    ELSE IF HasKey(res, "optimized_content")
    THEN IF IsStr(DictItem(res, "optimized_content"))
         THEN Built(DictItem(res, "optimized_content").v \o <<NL, NL>>)
         ELSE Thrown("TypeError")
    ELSE Built(<<>>)

\* preview_content of _optimization_complete, lines 1438-1461
OptimizationPreview(res) ==
    IF ~IsDict(res) THEN Built(PyStr(res))
    ELSE LET main == IF HasKey(res, "optimized_content")
                     THEN IF IsStr(DictItem(res, "optimized_content"))
                          THEN Built(DictItem(res, "optimized_content").v \o <<NL, NL>>)
                          ELSE Thrown("TypeError")
                     ELSE Built(<<>>)
         IN IF main.exc /= "" THEN main
            ELSE LET imp == ListBlock(res, "improvements", "IMPROVEMENTS MADE", main.val.v) IN
                 IF imp.exc /= "" THEN imp
                 ELSE ListBlock(res, "suggestions", "ADDITIONAL SUGGESTIONS", imp.val.v)

\* preview_content of _generation_complete, lines 1402-1412
GenerationPreview(res) ==
    IF ~IsDict(res) THEN Built(PyStr(res)) ELSE SectionLoop(res.v, 1, <<>>)

Dialog(kind, title, text, path) == [kind |-> kind, title |-> title, text |-> text, path |-> path]

HeadIs(fn) == after_queue /= <<>> /\ Head(after_queue).fn = fn

\* _generation_complete / _optimization_complete run by the Tk main loop
RunComplete ==
    /\ HeadIs("complete")
    /\ after_queue' = Tail(after_queue)
    /\ LET cb == Head(after_queue)
           gen == cb.op = "generate"
           pv == IF gen THEN GenerationPreview(cb.result) ELSE OptimizationPreview(cb.result)
       IN IF ~Truthy(cb.result)
          THEN /\ dialog' = Dialog("showerror", "Error",
                            <<W(IF gen THEN "Failed to generate resume. Please try again."
                                       ELSE "Failed to optimize resume. Please try again.")>>, NoPath)
               /\ callback_exc' = ""
               /\ UNCHANGED <<preview, tab>>
          ELSE IF pv.exc /= ""
          THEN /\ callback_exc' = pv.exc
               /\ UNCHANGED <<dialog, preview, tab>>
          ELSE /\ preview' = pv.val.v
               /\ dialog' = Dialog("showinfo", IF gen THEN "Resume Generated" ELSE "Resume Optimized",
                            <<W(IF gen THEN "Resume has been generated and saved to:"
                                       ELSE "Resume has been optimized and saved to:")>>, cb.path)
               /\ tab' = "Preview"
               /\ callback_exc' = ""
    /\ UNCHANGED <<keyVars, coreVars, fileVars, progress_open, ops, docVars, askVars>>

\* lambda: messagebox.showerror(..., f"...{str(e)}") run by the Tk main loop
RunShowError ==
    /\ HeadIs("showerror")
    /\ after_queue' = Tail(after_queue)
    /\ IF e = Unbound
       THEN /\ callback_exc' = "NameError"
            /\ UNCHANGED dialog
       ELSE /\ dialog' =
                 Dialog("showerror",
                        IF Head(after_queue).op = "generate" THEN "Error Generating Resume"
                                                             ELSE "Error Optimizing Resume",
                        <<W(IF Head(after_queue).op = "generate" THEN "Failed to generate resume:"
                                                                 ELSE "Failed to optimize resume:"),
                          NL, NL>> \o e.msg, NoPath)
            /\ callback_exc' = ""
    /\ UNCHANGED <<keyVars, coreVars, fileVars, progress_open, preview, tab, ops, docVars, askVars>>

\* lambda: progress.destroy()
RunDestroy ==
    /\ HeadIs("destroy")
    /\ after_queue' = Tail(after_queue)
    /\ progress_open' = FALSE
    /\ callback_exc' = ""
    /\ UNCHANGED <<keyVars, coreVars, fileVars, dialog, preview, tab, ops, docVars, askVars>>

ApiKeyMissing ==
    Dialog("showwarning", "API Key Missing",
           <<W("OpenRouter API key is not set. AI features will not work.")>>, NoPath)

\* lambda: self._show_api_key_missing() scheduled by _check_api_key
RunShowApiKeyMissing ==
    /\ HeadIs("_show_api_key_missing")
    /\ after_queue' = Tail(after_queue)
    /\ dialog' = ApiKeyMissing
    /\ callback_exc' = ""
    /\ UNCHANGED <<keyVars, coreVars, fileVars, progress_open, preview, tab, ops, docVars, askVars>>

\* -------------------------------------------------------- prompt builders
OptimizationIntro == W("Please optimize and improve the following resume:")
JobClause == W("Please tailor this resume to the following job description:")

\* the closing literal of _build_optimization_prompt, lines 334-350
OptimizationFormat ==
    W("Please provide the result in the following format: ... Format your response as JSON with the following structure: { \"optimized_content\": ..., \"improvements\": [...], \"suggestions\": [...] }")

\* the prompt that appends the tailoring clause whatever the job description is
BuildOptimizationPromptAlwaysTailoring(content, jd) ==
    <<OptimizationIntro, NL, NL>> \o PyStr(content) \o <<NL, NL>>
    \o <<JobClause, NL, NL>> \o PyStr(jd) \o <<NL, NL>>
    \o <<NL, OptimizationFormat>>

_build_optimization_prompt(content, jd) ==
    <<OptimizationIntro, NL, NL>> \o PyStr(content) \o <<NL, NL>>
    \o (IF Truthy(jd) THEN <<JobClause, NL, NL>> \o PyStr(jd) \o <<NL, NL>> ELSE <<>>)
    \o <<NL, OptimizationFormat>>

\* the closing literal of _build_generation_prompt, lines 434-449
GenerationFormat ==
    W("Please provide the result as a complete, ready-to-use professional resume. ... Format your response as JSON with the following structure: { \"content\": { \"summary\": ..., \"experience\": ..., \"education\": ..., \"skills\": ..., \"additional\": ... } }")

\* one labeled line of the f-string:  Label: {value}
Labeled(label, value) == <<W(label)>> \o PyStr(value) \o <<NL>>

\* one headed block of the f-string:  HEADING:\n{value}\n
Headed(heading, value) == <<NL, W(heading), NL>> \o PyStr(value) \o <<NL>>

\* style = json.loads(style_info) if it is a non-empty str (any exception
\* gives {}), else {}
StyleOf(style_info) ==
    IF IsStr(style_info) /\ Truthy(style_info)
    THEN LET r == json_loads(style_info.v) IN IF r.exc = "" THEN r.val ELSE PDict(<<>>)
    ELSE PDict(<<>>)

_build_generation_prompt(info) ==
    IF ~IsDict(info) THEN Raise("AttributeError")
    ELSE LET G(d, key, default) == DictGet(d, key, default).val
             contact == G(info, "contact", PDict(<<>>))
             style == StyleOf(G(info, "style", Lit("")))
         IN IF ~IsDict(contact) \/ ~IsDict(style) THEN Raise("AttributeError")
            ELSE Ret(PStr(
                 <<NL, W("Please create a professional resume for ")>>
                 \o PyStr(G(contact, "name", Lit("")))
                 \o <<W(" with the following information:"), NL, NL, W("CONTACT INFORMATION:"), NL>>
                 \o Labeled("Name: ", G(contact, "name", Lit("")))
                 \o Labeled("Email: ", G(contact, "email", Lit("")))
                 \o Labeled("Phone: ", G(contact, "phone", Lit("")))
                 \o Labeled("Location: ", G(contact, "location", Lit("")))
                 \o Headed("PROFESSIONAL SUMMARY:", G(info, "summary", Lit("")))
                 \o Headed("WORK EXPERIENCE:", G(info, "experience", Lit("")))
                 \o Headed("EDUCATION:", G(info, "education", Lit("")))
                 \o Headed("SKILLS:", G(info, "skills", Lit("")))
                 \o Headed("ADDITIONAL INFORMATION:", G(info, "additional", Lit("")))
                 \o (IF Truthy(G(info, "target_job", Lit("")))
                     THEN <<NL>> \o Labeled("TARGET JOB/ROLE: ", G(info, "target_job", Lit("")))
                     ELSE <<>>)
                 \o <<NL, W("STYLE PREFERENCES:"), NL>>
                 \o Labeled("- Layout: ", G(style, "layout", Lit("Traditional")))
                 \o Labeled("- Length: ", G(style, "length", Lit("1-page")))
                 \o Labeled("- Tone: ", G(style, "tone", Lit("Professional")))
                 \o Labeled("- Focus: ", G(style, "focus", Lit("Experience")))
                 \o (IF Truthy(G(style, "auto_summary", PBool(TRUE)))
                     THEN <<W("- Please enhance and polish the professional summary."), NL>>
                     ELSE <<>>)
                 \o (IF Truthy(G(style, "auto_skills", PBool(TRUE)))
                     THEN <<W("- Please organize and categorize skills for better presentation."), NL>>
                     ELSE <<>>)
                 \o <<NL, GenerationFormat>>))

\* optimize_resume, line 242
BuildOptimizationPrompt ==
    /\ pc = "prompt"
    /\ op = "optimize"
    /\ prompt' = PStr(_build_optimization_prompt(resume_content, job_description))
    /\ pc' = "request"
    /\ UNCHANGED <<op, scheduled, http_requests, http_response, sent, response, result, e, keyVars,
                   fileVars, uiVars, docVars, job_description, user_info>>

\* generate_thread, line 1249, and generate_resume_from_info, line 267: the
\* form is collected and the prompt built from it; an exception is bound as e
\* by the worker
BuildGenerationPrompt(infos) ==
    /\ pc = "prompt"
    /\ op = "generate"
    /\ \E info \in infos :
         LET built == _build_generation_prompt(info) IN
         /\ user_info' = info
         /\ IF built.exc = ""
            THEN /\ prompt' = built.val
                 /\ pc' = "request"
                 /\ UNCHANGED e
            ELSE /\ e' = [type |-> built.exc, msg |-> <<W("object has no attribute 'get'")>>]
                 /\ pc' = "except"
                 /\ UNCHANGED prompt
    /\ UNCHANGED <<op, scheduled, http_requests, http_response, sent, response, result, keyVars,
                   fileVars, uiVars, docVars, job_description>>

\* the state of a process in which nothing has been started
Quiet ==
    /\ http_requests = 0 /\ http_response = NoHttp
    /\ e = Unbound
    /\ clock = 0 /\ files = {} /\ output_path = NoPath
    /\ after_queue = <<>> /\ progress_open = FALSE /\ dialog = NoDialog
    /\ preview = <<W("Resume preview will appear here.")>> /\ tab = "Welcome"
    /\ callback_exc = "" /\ ops = 0
    /\ resume_file_path = NoAttr /\ resume_content = NoAttr /\ resume_sections = NoAttr
    /\ reader_calls = <<>> /\ file_read = NoFile
    /\ optimize_button = "disabled" /\ preview_optimize_button = "disabled"
    /\ job_description = PNone /\ user_info = PNone /\ prompt = NoAttr

\* the recoverers applied to every exchange
InitRecover ==
    /\ env_key = "sk-1" /\ OPENROUTER_API_KEY = "sk-1"
    /\ pc = "recover"
    /\ op \in {"optimize", "generate"}
    /\ \E x \in Exchanges : sent = x.sent /\ response = x.body
    /\ result = Unset /\ scheduled = <<>>
    /\ Quiet

NextRecover == RecoverOptimization \/ RecoverGeneration

SpecRecover == InitRecover /\ [][NextRecover]_vars

\* ----------------------------------------------------- document extraction
SLASH == P("/")
DOT   == P(".")

\* str.lower() on one run of a file name
Lower(c) ==
    CASE c = "PDF" -> "pdf" [] c = "Pdf" -> "pdf" [] c = "DOCX" -> "docx"
      [] c = "Doc" -> "doc" [] c = "TXT" -> "txt" [] c = "Text" -> "text"
      [] c = "RTF" -> "rtf"
      [] c \in {"EXPERIENCE", "Experience"} -> "experience"
      [] c \in {"EMPLOYMENT", "Employment"} -> "employment"
      [] c \in {"WORK", "Work"} -> "work"
      [] c \in {"PROFESSIONAL", "Professional"} -> "professional"
      [] c \in {"SUMMARY", "Summary"} -> "summary"
      [] c \in {"PROFILE", "Profile"} -> "profile"
      [] c \in {"OBJECTIVE", "Objective"} -> "objective"
      [] c \in {"EDUCATION", "Education"} -> "education"
      [] c \in {"QUALIFICATIONS", "Qualifications"} -> "qualifications"
      [] c \in {"SKILLS", "Skills"} -> "skills"
      [] OTHER -> c

LowerText(t) == [i \in 1..Len(t) |-> IF t[i].k \in {"w", "a"}
                                     THEN [k |-> t[i].k, s |-> Lower(t[i].s)] ELSE t[i]]

LastIndex(t, tok) ==
    IF \E i \in 1..Len(t) : t[i] = tok THEN SetMax({i \in 1..Len(t) : t[i] = tok}) ELSE 0

\* os.path.splitext(p)[1]: from the last dot of the last path component, unless
\* only dots precede it in that component
SplitExt(path) ==
    LET sepIndex == LastIndex(path, SLASH)
        dotIndex == LastIndex(path, DOT)
    IN IF dotIndex > sepIndex /\ \E f \in (sepIndex + 1)..(dotIndex - 1) : path[f] /= DOT
       THEN SubSeq(path, dotIndex, Len(path))
       ELSE <<>>

RECURSIVE JoinPagesSeparating(_, _)
\* the pages with a newline between them only
JoinPagesSeparating(pages, i) ==
    IF i > Len(pages) THEN <<>>
    ELSE pages[i] \o (IF i < Len(pages) THEN <<NL>> ELSE <<>>) \o JoinPagesSeparating(pages, i + 1)

RECURSIVE JoinPages(_, _)
\* text_content += page.extract_text() + "\n" for each page
JoinPages(pages, i) ==
    IF i > Len(pages) THEN <<>> ELSE pages[i] \o <<NL>> \o JoinPages(pages, i + 1)

\* ------------------------------------------------------ section detection
\* the first position from i on whose token is not in the class (Len(s) + 1
\* when the run reaches the end)
RunEnd(s, i, InClass(_)) ==
    CHOOSE j \in i..(Len(s) + 1) :
        /\ j = Len(s) + 1 \/ ~InClass(s[j])
        /\ \A m \in i..(j - 1) : InClass(s[m])

\* the element of a set of one element
TheOnly(S) == CHOOSE x \in S : TRUE

RECURSIVE CleanText(_, _)
\* re.sub(r'\n+', '\n\n', text_content): every run of newlines becomes two
CleanText(s, i) ==
    IF i > Len(s) THEN <<>>
    ELSE IF s[i] /= NL THEN <<s[i]>> \o CleanText(s, i + 1)
    ELSE IF i > 1 /\ s[i - 1] = NL THEN CleanText(s, i + 1)
    ELSE <<NL, NL>> \o CleanText(s, i + 1)

\* the header alternatives of the four patterns, lower-cased ((?i)), the words
\* of one alternative being separated by \s+
SectionPatterns ==
    ( "summary"    :> << <<"summary">>, <<"professional", "summary">>, <<"profile">>,
                         <<"objective">> >> ) @@
    ( "experience" :> << <<"experience">>, <<"work", "experience">>,
                         <<"professional", "experience">>, <<"employment">> >> ) @@
    ( "education"  :> << <<"education">>, <<"academic", "background">>,
                         <<"qualifications">> >> ) @@
    ( "skills"     :> << <<"skills">>, <<"technical", "skills">>, <<"core", "competencies">>,
                         <<"areas", "of", "expertise">> >> )

RECURSIVE HeaderEnd(_, _, _, _)
\* the position after the words alt[k..] matched from token i on: a set of
\* one position, or the empty set if the words do not match there
HeaderEnd(s, i, alt, k) ==
    IF i > Len(s) \/ s[i].k /= "a" \/ Lower(s[i].s) /= alt[k] THEN {}
    ELSE IF k = Len(alt) THEN {i + 1}
    ELSE UNION { HeaderEnd(s, j, alt, k + 1) :
                   j \in {RunEnd(s, i + 1, LAMBDA t : t \in {SP, NL})} \ {i + 1} }

\* re.search(r"(?i)(ALT|...)[:\s]*\n(.*?)(?=\n\s*\n|\n[A-Z]+[:\s]*\n|$)", s,
\* re.DOTALL): group 2 of the match, as a set of one text, or the empty set
\* if there is no match. The match is at the leftmost position where an
\* alternative is followed by a run of colons and white space that holds a
\* newline; [:\s]* is greedy, so group 2 starts after the last newline of that
\* run, and being lazy it ends at the first position where the lookahead holds
ReSearchSection(s, alts) ==
    LET BodyStart(h) ==
            { b \in (h + 1)..(Len(s) + 1) :
                /\ s[b - 1] = NL
                /\ \A j \in h..(b - 1) : s[j] \in {COLON, SP, NL}
                /\ \A m \in b..Len(s) :
                      s[m] = NL => \E j \in b..m : s[j] \notin {COLON, SP, NL} }
         BodyAt(i, a) == UNION { BodyStart(h) : h \in HeaderEnd(s, i, alts[a], 1) }
         Alts(i) == { a \in 1..Len(alts) : BodyAt(i, a) /= {} }
         Match(i) == UNION { BodyAt(i, a) : a \in { a \in Alts(i) : \A o \in Alts(i) : a <= o } }
         Lookahead(q) ==
            \/ q = Len(s) + 1
            \/ /\ s[q] = NL
               /\ \/ q = Len(s)
                  \/ \E m \in (q + 1)..(RunEnd(s, q + 1, LAMBDA t : t \in {SP, NL}) - 1) : s[m] = NL
                  \/ \E a \in {RunEnd(s, q + 1, LAMBDA t : t.k = "a")} \ {q + 1} :
                        \E m \in a..(RunEnd(s, a, LAMBDA t : t \in {COLON, SP, NL}) - 1) : s[m] = NL
         GroupEnd(b) ==
            CHOOSE p \in b..(Len(s) + 1) : Lookahead(p) /\ \A q \in b..(p - 1) : ~Lookahead(q)
         starts == { i \in 1..Len(s) : Match(i) /= {} }
    IN UNION { { SubSeq(s, b, GroupEnd(b) - 1) : b \in Match(i) } :
                 i \in { i \in starts : \A o \in starts : i <= o } }

\* str.strip()
Strip(t) ==
    LET keep == {i \in 1..Len(t) : t[i] \notin {SP, NL}} IN
    IF keep = {} THEN <<>> ELSE SubSeq(t, SetMin(keep), SetMax(keep))

\* sections[kind] = match.group(2).strip() for each pattern that matches, in
\* the order summary, experience, education, skills;  sections if sections
\* else None
_identify_resume_sections(text_content) ==
    LET Section(clean_text, kind) ==
            TheOnly({ IF groups = {} THEN <<>> ELSE << <<kind, PStr(Strip(TheOnly(groups)))>> >> :
                        groups \in {ReSearchSection(clean_text, SectionPatterns[kind])} })
        Sections(clean_text) ==
            Section(clean_text, "summary") \o Section(clean_text, "experience")
            \o Section(clean_text, "education") \o Section(clean_text, "skills")
    IN TheOnly({ IF sections = <<>> THEN PNone ELSE PDict(sections) :
                   sections \in { Sections(clean_text) :
                                     clean_text \in {CleanText(text_content, 1)} } })

Parsed(text, calls) ==
    [exc |-> "", msg |-> <<>>, text |-> text, calls |-> calls,
     sections |-> _identify_resume_sections(text)]
ParseError(exc, msg, calls) ==
    [exc |-> exc, msg |-> msg, text |-> <<>>, calls |-> calls, sections |-> PNone]

_parse_pdf(file) ==
    IF ~file.ok THEN ParseError("PdfReadError", <<W("EOF marker not found")>>, <<"_parse_pdf">>)
    ELSE Parsed(JoinPages(file.pages, 1), <<"_parse_pdf", "_identify_resume_sections">>)

_parse_word(file) ==
    IF ~file.ok THEN ParseError("BadZipFile", <<W("File is not a zip file")>>, <<"_parse_word">>)
    ELSE Parsed(file.text, <<"_parse_word", "_identify_resume_sections">>)

_parse_text(file) ==
    IF ~file.ok THEN ParseError("UnicodeDecodeError", <<W("invalid start byte")>>, <<"_parse_text">>)
    ELSE Parsed(file.text, <<"_parse_text", "_identify_resume_sections">>)

\* the dispatch without .lower()
ExtensionAsWritten(path) == SplitExt(path)

file_extension(path) == LowerText(SplitExt(path))

parse_document(file_path, file) ==
    LET ext == file_extension(file_path) IN
    IF ext = <<DOT, W("pdf")>> THEN _parse_pdf(file)
    ELSE IF ext \in {<<DOT, W("docx")>>, <<DOT, W("doc")>>} THEN _parse_word(file)
    ELSE IF ext \in {<<DOT, W("txt")>>, <<DOT, W("text")>>} THEN _parse_text(file)
    ELSE ParseError("ValueError", <<W("Unsupported file format: ")>> \o ext, <<>>)

PathWords == {"resume", "pdf", "PDF", "Pdf", "DOCX", "Doc", "docx", "doc", "txt", "Text", "text", "rtf"}
PathAlphabet == {SLASH, DOT} \cup {W(c) : c \in PathWords}

\* every path of at most MaxPathLen pieces
Paths == UNION { [1..n -> PathAlphabet] : n \in 1..MaxPathLen }

AppPaths == { <<W("resume"), DOT, W("PDF")>>, <<W("resume"), DOT, W("txt")>>,
              <<W("resume"), DOT, W("rtf")>> }

Page1 == <<A("EXPERIENCE"), NL, W("Engineer at Acme, 2020-2023")>>
Page2 == <<A("EDUCATION"), NL, W("BSc CS, 2020")>>

File(pages, text) == [ok |-> TRUE, pages |-> pages, text |-> text]

\* what a file on disk can hold
FileContents ==
    { NoFile,
      File(<<>>, <<>>),
      File(<<Page1>>, Page1),
      File(<<Page1, Page2>>, Page1 \o <<NL, NL>> \o Page2) }

\* _upload_resume with the path the file dialog returned (a cancelled dialog
\* changes nothing)
UploadResume(paths, contents) ==
    /\ ~progress_open
    /\ \E file_path \in paths, file \in contents :
         \E parsed \in {parse_document(file_path, file)} :
             /\ resume_file_path' = PStr(file_path)
             /\ reader_calls' = parsed.calls
             /\ file_read' = file
             /\ IF parsed.exc = ""
                THEN /\ resume_content' = PStr(parsed.text)
                     /\ resume_sections' = parsed.sections
                     /\ optimize_button' = "normal"
                     /\ preview_optimize_button' = "normal"
                     /\ UNCHANGED dialog
                ELSE /\ dialog' = Dialog("showerror", "Error",
                                         <<W("Failed to upload resume:"), NL, NL>> \o parsed.msg, NoPath)
                     /\ UNCHANGED <<resume_content, resume_sections, optimize_button,
                                    preview_optimize_button>>
    /\ UNCHANGED <<keyVars, coreVars, fileVars, after_queue, progress_open, preview, tab,
                   callback_exc, ops, askVars>>

\* ------------------------------------------------------- what the user enters
\* the job text box: its placeholder (get_content gives ""), blanks, one or
\* several lines; None is the default of optimize_resume
JobDescriptions ==
    { PNone, Lit(""), PStr(<<SP>>), Lit("Senior Engineer at Acme"),
      PStr(<<W("Backend role"), NL, W("Python, SQL")>>) }

AppJobDescriptions == { Lit("Senior Engineer at Acme") }

\* style_dict of _collect_user_info
StyleDict(auto_summary, auto_skills) ==
    PDict(<< <<"layout", Lit("Modern")>>, <<"length", Lit("2-page")>>,
             <<"tone", Lit("Confident")>>, <<"focus", Lit("Skills")>>,
             <<"auto_summary", PBool(auto_summary)>>,
             <<"auto_skills", PBool(auto_skills)>> >>)

\* user_info["style"] = json.dumps(style_dict)
StyleJson(auto_summary, auto_skills) == PStr(json_dumps(StyleDict(auto_summary, auto_skills)))

FullContact ==
    PDict(<< <<"name", Lit("Ann Lee")>>, <<"email", Lit("ann@example.org")>>,
             <<"phone", Lit("555-0100")>>, <<"location", Lit("Oslo")>> >>)

\* the record _collect_user_info builds from a completely filled form
FullInfo ==
    PDict(<< <<"contact", FullContact>>, <<"summary", Lit("Backend engineer")>>,
             <<"experience", Lit("Engineer at Acme, 2020-2023")>>,
             <<"education", Lit("BSc CS, 2020")>>, <<"skills", Lit("Python, SQL")>>,
             <<"additional", Lit("Volunteer")>>, <<"target_job", Lit("Staff Engineer")>>,
             <<"style", StyleJson(TRUE, TRUE)>> >>)

DictDel(d, key) == PDict(SelectSeq(d.v, LAMBDA item : item[1] /= key))

\* d with the key left out, null or empty
Lacking(d, key) == { DictDel(d, key), DictSet(d, key, PNone), DictSet(d, key, Lit("")) }

\* records in which optional fields are missing, null or empty, alone or
\* together, and records whose style is the JSON text of the form's choices,
\* that text lacking a field, or the mapping itself
UserInfos ==
    { FullInfo, PDict(<< <<"contact", FullContact>> >>), DictDel(FullInfo, "contact"),
      DictDel(FullInfo, "style"), DictSet(FullInfo, "style", Lit("")),
      DictSet(FullInfo, "style", PStr(<<LBRACE, RBRACE>>)) }
    \cup UNION { { DictSet(FullInfo, "style", StyleJson(a, b)),
                    DictSet(FullInfo, "style", StyleDict(a, b)) } : a, b \in BOOLEAN }
    \cup { DictSet(FullInfo, "style", PStr(json_dumps(DictDel(StyleDict(FALSE, FALSE), key)))) :
             key \in Keys(StyleDict(FALSE, FALSE)) }
    \cup UNION { Lacking(FullInfo, key) :
                   key \in {"summary", "skills", "additional", "target_job"} }
    \cup UNION { { DictSet(i, "contact", c) : c \in Lacking(FullContact, key) } :
                   key \in {"email", "phone", "location"},
                   i \in {FullInfo} \cup Lacking(FullInfo, "summary") \cup Lacking(FullInfo, "target_job") }

\* what the form of the application holds
AppUserInfos == { FullInfo }

\* --------------------------------------------------------------- handlers
\* the modal progress dialog is shown and the worker thread started, with the
\* job description read from the text box (line 1293)
StartWorker(kind, jd, limit) ==
    /\ ops < limit
    /\ ops' = ops + 1
    /\ progress_open' = TRUE
    /\ op' = kind
    /\ pc' = "prompt"
    /\ job_description' = jd
    /\ prompt' = NoAttr
    /\ sent' = NoReply("none") /\ response' = PNone /\ result' = Unset /\ scheduled' = <<>>
    /\ UNCHANGED <<http_requests, http_response, e, dialog, user_info>>

MissingInformation ==
    Dialog("showwarning", "Missing Information", <<W("Please enter your name.")>>, NoPath)

\* _generate_resume, in a run of at most limit operations
Generate(limit) ==
    /\ ~progress_open
    /\ pc = "idle"
    /\ \E form_valid \in BOOLEAN :
         IF ~form_valid
         THEN /\ dialog' = MissingInformation
              /\ UNCHANGED <<coreVars, progress_open, ops, askVars>>
         ELSE IF OPENROUTER_API_KEY = ""
         THEN /\ dialog' = ApiKeyMissing
              /\ UNCHANGED <<coreVars, progress_open, ops, askVars>>
         ELSE StartWorker("generate", job_description, limit)
    /\ UNCHANGED <<keyVars, fileVars, after_queue, preview, tab, callback_exc, docVars>>

GenerateResume == Generate(MaxOps)

\* _optimize_resume, in a run of at most limit operations
Optimize(limit) ==
    /\ ~progress_open
    /\ pc = "idle"
    /\ optimize_button = "normal"
    /\ IF resume_content = NoAttr
       THEN /\ dialog' = Dialog("showwarning", "No Resume",
                                <<W("Please upload a resume file first.")>>, NoPath)
            /\ UNCHANGED <<coreVars, progress_open, ops, askVars>>
       ELSE IF OPENROUTER_API_KEY = ""
       THEN /\ dialog' = ApiKeyMissing
            /\ UNCHANGED <<coreVars, progress_open, ops, askVars>>
       ELSE \E jd \in AppJobDescriptions : StartWorker("optimize", jd, limit)
    /\ UNCHANGED <<keyVars, fileVars, after_queue, preview, tab, callback_exc, docVars>>

OptimizeResume == Optimize(MaxOps)

\* the environment: the user puts the key into the OPENROUTER_API_KEY setting
SupplyCredential ==
    /\ env_key = ""
    /\ env_key' = "sk-1"
    /\ UNCHANGED <<OPENROUTER_API_KEY, coreVars, fileVars, uiVars, docVars, askVars>>

\* --------------------------------------------------------- specifications
\* the application after ResumeMakerApp() was constructed
Init ==
    /\ env_key \in {"", "sk-1"}
    /\ OPENROUTER_API_KEY = env_key
    /\ pc = "idle" /\ op = "none"
    /\ sent = NoReply("none") /\ response = PNone /\ result = Unset /\ scheduled = <<>>
    /\ http_requests = 0 /\ http_response = NoHttp /\ e = Unbound
    /\ clock = 0 /\ files = {} /\ output_path = NoPath
    /\ after_queue = IF OPENROUTER_API_KEY = ""
                     THEN <<Callback("_show_api_key_missing", "none", PNone, NoPath)>>
                     ELSE <<>>
    /\ progress_open = FALSE /\ dialog = NoDialog
    /\ preview = <<W("Resume preview will appear here.")>> /\ tab = "Welcome"
    /\ callback_exc = "" /\ ops = 0
    /\ resume_file_path = NoAttr /\ resume_content = NoAttr /\ resume_sections = NoAttr
    /\ reader_calls = <<>> /\ file_read = NoFile
    /\ optimize_button = "disabled" /\ preview_optimize_button = "disabled"
    /\ job_description = PNone /\ user_info = PNone /\ prompt = NoAttr

AppUpload == UploadResume(AppPaths, FileContents)
AppRequest == MakeApiRequest(AppExchanges)
AppGenerationPrompt == BuildGenerationPrompt(AppUserInfos)

Next ==
    \/ AppUpload \/ GenerateResume \/ OptimizeResume \/ SupplyCredential
    \/ BuildOptimizationPrompt \/ AppGenerationPrompt
    \/ AppRequest \/ RecoverOptimization \/ RecoverGeneration \/ RenderResume
    \/ ScheduleComplete \/ ScheduleError \/ ExitExcept \/ ScheduleDestroy
    \/ RunComplete \/ RunShowError \/ RunDestroy \/ RunShowApiKeyMissing
    \/ Tick

Spec == Init /\ [][Next]_vars

\* one worker running the core with any exchange and any credential setting
InitWorker ==
    /\ env_key \in {"", "sk-1"}
    /\ OPENROUTER_API_KEY = env_key
    /\ pc = "prompt"
    /\ op \in {"optimize", "generate"}
    /\ sent = NoReply("none") /\ response = PNone /\ result = Unset /\ scheduled = <<>>
    /\ http_requests = 0 /\ http_response = NoHttp /\ e = Unbound
    /\ clock = 0 /\ files = {} /\ output_path = NoPath
    /\ after_queue = <<>> /\ progress_open = TRUE /\ dialog = NoDialog
    /\ preview = <<W("Resume preview will appear here.")>> /\ tab = "Create Resume"
    /\ callback_exc = "" /\ ops = 1
    /\ resume_file_path = PStr(<<A("resume"), DOT, W("txt")>>)
    /\ resume_content = PStr(Page1 \o <<NL, NL>> \o Page2)
    /\ resume_sections = _identify_resume_sections(Page1 \o <<NL, NL>> \o Page2)
    /\ reader_calls = <<"_parse_text", "_identify_resume_sections">>
    /\ file_read = File(<<>>, Page1 \o <<NL, NL>> \o Page2)
    /\ optimize_button = "normal" /\ preview_optimize_button = "normal"
    /\ job_description \in AppJobDescriptions /\ user_info = PNone /\ prompt = NoAttr

WorkerRequest == MakeApiRequest(Exchanges)

NextWorker ==
    \/ BuildOptimizationPrompt \/ AppGenerationPrompt
    \/ WorkerRequest \/ RecoverOptimization \/ RecoverGeneration \/ RenderResume
    \/ ScheduleComplete \/ ScheduleError \/ ExitExcept \/ ScheduleDestroy
    \/ RunComplete \/ RunShowError \/ RunDestroy

SpecWorker == InitWorker /\ [][NextWorker]_vars

\* the statements of generate_thread and optimize_thread, from the try to the finally
ThreadStep ==
    \/ BuildOptimizationPrompt \/ AppGenerationPrompt
    \/ AppRequest \/ RecoverOptimization \/ RecoverGeneration \/ RenderResume
    \/ ScheduleComplete \/ ScheduleError \/ ExitExcept \/ ScheduleDestroy

NextThread == ThreadStep \/ RunComplete \/ RunShowError \/ RunDestroy

\* the statements a thread can be at, "idle" once it has ended
Positions ==
    { "prompt", "request", "recover", "render", "notify", "except", "except exit",
      "finally", "idle" }

\* a thread that has not ended moves on to another statement: every step of
\* ThreadStep does, and no other step changes pc
ThreadAdvances == pc /= "idle" /\ pc' \in Positions \ {pc}

\* a started thread runs to its end: requests.post returns or raises within its timeout
SpecThread == InitWorker /\ [][NextThread]_vars /\ WF_pc(ThreadAdvances)

\* parse_document applied to every path: the first upload after construction
InitExtract == Init /\ env_key = "sk-1"

FirstUpload == resume_file_path = NoAttr /\ UploadResume(Paths, FileContents)

NextExtract == FirstUpload

SpecExtract == InitExtract /\ [][NextExtract]_vars

\* lines a resume may hold: headers in several spellings, and body lines
DetectLines ==
    { <<A("EXPERIENCE")>>, <<A("Employment"), COLON>>, <<A("Work"), SP, A("Experience")>>,
      <<A("EDUCATION")>>, <<A("profile")>>,
      <<A("Engineer"), SP, A("with"), SP, A("experience")>>,
      <<A("Did"), SP, W("X, 2020-2023")>> }

RECURSIVE JoinLines(_, _, _)
JoinLines(lines, i, gap) ==
    IF i > Len(lines) THEN <<>>
    ELSE (IF i > 1 THEN gap ELSE <<>>) \o lines[i] \o JoinLines(lines, i + 1, gap)

\* every text of at most MaxLines lines, single- or double-spaced, with or
\* without a final newline
DetectTexts ==
    { JoinLines(lines, 1, gap) \o tail :
        lines \in UNION { [1..n -> DetectLines] : n \in 1..MaxLines },
        gap \in { <<NL>>, <<NL, NL>> }, tail \in { <<>>, <<NL>> } }

\* _upload_resume of a text file holding any of these texts: the section
\* detector applied to every text
DetectUpload ==
    /\ resume_file_path = NoAttr
    /\ UploadResume({<<A("resume"), DOT, W("txt")>>}, {File(<<>>, t) : t \in DetectTexts})

NextDetect == DetectUpload

SpecDetect == InitExtract /\ [][NextDetect]_vars

\* several operations in a row on an uploaded resume, the credential being set
InitRepeat ==
    /\ env_key = "sk-1" /\ OPENROUTER_API_KEY = "sk-1"
    /\ pc = "idle" /\ op = "none"
    /\ sent = NoReply("none") /\ response = PNone /\ result = Unset /\ scheduled = <<>>
    /\ http_requests = 0 /\ http_response = NoHttp /\ e = Unbound
    /\ clock = 0 /\ files = {} /\ output_path = NoPath
    /\ after_queue = <<>> /\ progress_open = FALSE /\ dialog = NoDialog
    /\ preview = <<W("Resume preview will appear here.")>> /\ tab = "Welcome"
    /\ callback_exc = "" /\ ops = 0
    /\ resume_file_path = PStr(<<A("resume"), DOT, W("txt")>>)
    /\ resume_content = PStr(Page1 \o <<NL, NL>> \o Page2)
    /\ resume_sections = _identify_resume_sections(Page1 \o <<NL, NL>> \o Page2)
    /\ reader_calls = <<"_parse_text", "_identify_resume_sections">>
    /\ file_read = File(<<>>, Page1 \o <<NL, NL>> \o Page2)
    /\ optimize_button = "normal" /\ preview_optimize_button = "normal"
    /\ job_description = PNone /\ user_info = PNone /\ prompt = NoAttr

GenerateAgain == Generate(MaxInvocations)
OptimizeAgain == Optimize(MaxInvocations)

NextRepeat ==
    \/ GenerateAgain \/ OptimizeAgain
    \/ BuildOptimizationPrompt \/ AppGenerationPrompt
    \/ AppRequest \/ RecoverOptimization \/ RecoverGeneration \/ RenderResume
    \/ ScheduleComplete \/ ScheduleError \/ ExitExcept \/ ScheduleDestroy
    \/ RunComplete \/ RunShowError \/ RunDestroy
    \/ Tick

SpecRepeat == InitRepeat /\ [][NextRepeat]_vars

\* the prompt builders applied to every resume text, job description and record
InitPrompt ==
    /\ env_key = "sk-1" /\ OPENROUTER_API_KEY = "sk-1"
    /\ pc = "prompt"
    /\ op \in {"optimize", "generate"}
    /\ sent = NoReply("none") /\ response = PNone /\ result = Unset /\ scheduled = <<>>
    /\ http_requests = 0 /\ http_response = NoHttp /\ e = Unbound
    /\ clock = 0 /\ files = {} /\ output_path = NoPath
    /\ after_queue = <<>> /\ progress_open = TRUE /\ dialog = NoDialog
    /\ preview = <<W("Resume preview will appear here.")>> /\ tab = "Welcome"
    /\ callback_exc = "" /\ ops = 1
    /\ user_info = PNone /\ prompt = NoAttr
    /\ IF op = "optimize"
       THEN /\ resume_content \in {PStr(t) : t \in RawTexts \cup {Page1 \o <<NL, NL>> \o Page2}}
            /\ job_description \in JobDescriptions
            /\ resume_file_path = PStr(<<A("resume"), DOT, W("txt")>>)
            /\ resume_sections = _identify_resume_sections(resume_content.v)
            /\ reader_calls = <<"_parse_text", "_identify_resume_sections">>
            /\ file_read = File(<<>>, resume_content.v)
            /\ optimize_button = "normal" /\ preview_optimize_button = "normal"
       ELSE /\ resume_content = NoAttr /\ resume_file_path = NoAttr /\ resume_sections = NoAttr
            /\ reader_calls = <<>> /\ file_read = NoFile
            /\ job_description = PNone
            /\ optimize_button = "disabled" /\ preview_optimize_button = "disabled"

PromptOfAnyRecord == BuildGenerationPrompt(UserInfos)

NextPrompt == BuildOptimizationPrompt \/ PromptOfAnyRecord

SpecPrompt == InitPrompt /\ [][NextPrompt]_vars

\* ------------------------------------------------- recovery: the claims
\* the reply text holds a '{' with a '}' somewhere after it
HasBracePair(t) == \E i, j \in 1..Len(t) : i < j /\ t[i] = LBRACE /\ t[j] = RBRACE

\* the substring from the first '{' to the last '}' of the text
BraceSpan(t) ==
    LET i == CHOOSE a \in 1..Len(t) : t[a] = LBRACE /\ \A b \in 1..(a - 1) : t[b] /= LBRACE
        j == CHOOSE a \in 1..Len(t) : t[a] = RBRACE /\ \A b \in (a + 1)..Len(t) : t[b] /= RBRACE
    IN SubSeq(t, i, j)

Undecodable(t) == HasBracePair(t) /\ json_loads(BraceSpan(t)).exc /= ""

HasReplyText == sent.kind \in {"raw", "json"}
Recovered == result.exc /= "unset"

IsStrList(x) == IsList(x) /\ \A i \in 1..Len(x.v) : IsStr(x.v[i])

IsOptimizationResult(o) ==
    /\ IsDict(o)
    /\ Len(o.v) = 3
    /\ Keys(o) = SeqRange(OptKeys)
    /\ IsStr(DictItem(o, "optimized_content"))
    /\ IsStrList(DictItem(o, "improvements"))
    /\ IsStrList(DictItem(o, "suggestions"))

IsGenerationResult(o) ==
    /\ IsDict(o)
    /\ Len(o.v) = 5
    /\ Keys(o) = SeqRange(GenKeys)
    /\ \A key \in SeqRange(GenKeys) : IsStr(DictItem(o, key))

\* C1: whatever the model replied, the result of _process_optimization_response
\* is a mapping that carries optimized_content, improvements and suggestions.
C1_OptimizationResultHasThreeKeys ==
    (Recovered /\ op = "optimize") =>
        /\ result.exc = ""
        /\ IsDict(result.val)
        /\ SeqRange(OptKeys) \subseteq Keys(result.val)

\* C2: whatever the model replied, the result of _process_generation_response
\* is a mapping that carries summary, experience, education, skills and additional.
C2_GenerationResultHasFiveKeys ==
    (Recovered /\ op = "generate") =>
        /\ result.exc = ""
        /\ IsDict(result.val)
        /\ SeqRange(GenKeys) \subseteq Keys(result.val)

\* the envelope shapes the recoverers are promised to absorb
AbsorbedEnvelope ==
    \/ sent.kind \in {"no_choices", "empty_choices", "no_message", "no_content", "null_content"}
    \/ HasReplyText /\ (~HasBracePair(sent.text) \/ Undecodable(sent.text))

\* C3: neither recoverer propagates an exception, and for an envelope without
\* choices, message or content, or with a content that has no decodable
\* brace-delimited substring, what it returns is a mapping.
C3_RecoveryNeverRaises ==
    Recovered => /\ result.exc = ""
                 /\ AbsorbedEnvelope => IsDict(result.val)

C3_Witness ==
    /\ Recovered
    /\ sent.kind \in {"empty_choices", "null_content"}
    /\ result.exc = ""
    /\ IsDict(result.val)

\* C4: when the reply text has no brace-delimited substring, or the substring
\* from the first '{' to the last '}' does not decode, the result is the fallback
\* whose primary field is the whole reply text and whose other fields are the
\* fixed literals.
C4_FallbackCarriesRawText ==
    (Recovered /\ HasReplyText /\ (~HasBracePair(sent.text) \/ Undecodable(sent.text))) =>
        /\ op = "optimize" =>
             result = Ret(PDict(<<
                 <<"optimized_content", PStr(sent.text)>>,
                 <<"improvements", PList(<<PStr(<<W("AI-generated optimization")>>)>>)>>,
                 <<"suggestions", PList(<<PStr(<<W("Review the optimized resume carefully")>>)>>)>> >>))
        /\ op = "generate" =>
             result = Ret(PDict(<<
                 <<"summary", PStr(<<W("Professional Summary (AI-generated)")>>)>>,
                 <<"experience", PStr(sent.text)>>,
                 <<"education", PStr(<<>>)>>,
                 <<"skills", PStr(<<>>)>>,
                 <<"additional", PStr(<<W("Review and edit this AI-generated content.")>>)>> >>))

C4_Witness ==
    /\ Recovered
    /\ op = "optimize"
    /\ sent.kind = "json"
    /\ sent.pre /= <<>>
    /\ Undecodable(sent.text)
    /\ DictItem(result.val, "optimized_content") = PStr(sent.text)

\* C5: when the reply text is exactly the JSON text of an object of the target
\* schema, the result is that object (for the nested generation form, the
\* object under content): same keys, same values.
C5_RoundTrip ==
    (Recovered /\ sent.kind = "json" /\ sent.pre = <<>> /\ sent.post = <<>>) =>
        /\ (op = "optimize" /\ IsOptimizationResult(sent.obj)) => result = Ret(sent.obj)
        /\ (op = "generate" /\ IsGenerationResult(sent.obj)) => result = Ret(sent.obj)
        /\ (op = "generate" /\ Keys(sent.obj) = {"content"}
              /\ IsGenerationResult(DictItem(sent.obj, "content")))
           => result = Ret(DictItem(sent.obj, "content"))

C5_Witness ==
    /\ Recovered
    /\ op = "generate"
    /\ sent.kind = "json" /\ sent.pre = <<>> /\ sent.post = <<>>
    /\ Keys(sent.obj) = {"content"}
    /\ IsGenerationResult(DictItem(sent.obj, "content"))
    /\ result.val = DictItem(sent.obj, "content")

\* ------------------------------------------------- pipeline: the claims
\* C6: once the completion call has returned a reply, neither rendering it to
\* the output file nor the completion callback raises because of what the reply
\* holds (a TypeError is what a non-string section value raises).
C6_PipelineSurvivesAnyReply ==
    /\ e.type /= "TypeError"
    /\ callback_exc /= "TypeError"

\* C7: with no API key configured the client raises the missing-credential
\* error and no HTTP request is ever issued.
C7_NoCredentialNoRequest ==
    OPENROUTER_API_KEY = "" =>
        /\ http_requests = 0
        /\ http_response = NoHttp
        /\ pc \notin {"recover", "render", "notify"}
        /\ pc = "except" => e = [type |-> "ValueError", msg |-> <<W("OpenRouter API key is not set")>>]

C7_Witness ==
    /\ OPENROUTER_API_KEY = ""
    /\ pc = "except"
    /\ e.type = "ValueError"
    /\ http_requests = 0

Non2xx(status) == status /= 0 /\ (status < 200 \/ status > 299)

\* C8: a non-2xx response makes the client raise an error whose message holds
\* the response status and body, and no parsed body reaches the caller.
C8_Non2xxFails ==
    Non2xx(http_response.status) =>
        /\ response = PNone
        /\ result = Unset
        /\ pc \notin {"recover", "render", "notify"}
        /\ pc = "except" =>
             e = [type |-> "ValueError",
                  msg |-> <<W("API request failed: "), N(StatusStr(http_response.status)), W(" - ")>>
                          \o http_response.text]

C8_Witness ==
    /\ http_response.status = 429
    /\ http_response.text /= <<>>
    /\ pc = "except"
    /\ e.type = "ValueError"
    /\ response = PNone

\* C9: once the API key is set in the configuration, a generate or optimize
\* operation does not end in the missing-credential warning but starts the
\* worker that issues the request.
C9_CredentialRecheckable ==
    [][(env_key /= "" /\ (GenerateResume \/ OptimizeResume)) => dialog' /= ApiKeyMissing]_vars

\* ----------------------------------------------- extraction: the claims
Uploaded == resume_file_path /= NoAttr

\* the path ends in a dot and a word of exts (in any case), with a name before
\* the dot in the same path component
HasExtension(path, exts) ==
    /\ Len(path) >= 3
    /\ path[Len(path) - 1] = DOT
    /\ path[Len(path)].k = "w"
    /\ Lower(path[Len(path)].s) \in exts
    /\ \E f \in 1..(Len(path) - 2) :
         /\ path[f].k = "w"
         /\ \A g \in f..(Len(path) - 2) : path[g] /= SLASH

Readers == {"_parse_pdf", "_parse_word", "_parse_text"}
Supported == {"pdf", "docx", "doc", "txt", "text"}

OnlyReader(reader) ==
    /\ reader_calls /= <<>>
    /\ reader_calls[1] = reader
    /\ \A i \in 2..Len(reader_calls) : reader_calls[i] \notin Readers

\* C10: the reader is chosen by the lower-cased extension: .pdf, .docx/.doc and
\* .txt/.text in any case reach their own reader and no other, and any other
\* path reaches no reader and no section detection and is reported as an
\* unsupported format together with its extension.
C10_DispatchOnLowercasedExtension ==
    Uploaded =>
        LET path == resume_file_path.v IN
        /\ HasExtension(path, {"pdf"}) => OnlyReader("_parse_pdf")
        /\ HasExtension(path, {"docx", "doc"}) => OnlyReader("_parse_word")
        /\ HasExtension(path, {"txt", "text"}) => OnlyReader("_parse_text")
        /\ ~HasExtension(path, Supported) =>
             /\ reader_calls = <<>>
             /\ resume_content = NoAttr
             /\ dialog.kind = "showerror"
             /\ SubSeq(dialog.text, 1, 4) =
                    <<W("Failed to upload resume:"), NL, NL, W("Unsupported file format: ")>>
             /\ HasExtension(path, PathWords) =>
                    dialog.text[Len(dialog.text)] = W(Lower(path[Len(path)].s))

C10_Witness ==
    /\ Uploaded
    /\ resume_file_path.v = <<W("resume"), DOT, W("PDF")>>
    /\ reader_calls = <<"_parse_pdf", "_identify_resume_sections">>
    /\ resume_content /= NoAttr

\* ------------------------------------------------ detection: the claims
Detected == resume_sections /= NoAttr

\* C11: every key of the SectionMap the detector returned maps to a non-empty
\* body (a header with nothing after it is left out, not stored as the empty
\* string), and a map without keys is never returned (None instead).
C11_SectionBodiesNonEmpty ==
    (Detected /\ IsDict(resume_sections)) =>
        /\ resume_sections.v /= <<>>
        /\ \A i \in 1..Len(resume_sections.v) : resume_sections.v[i][2] /= PStr(<<>>)

\* the lines of a text: where each starts, and the line that starts there
LineStarts(t) == {i \in 1..Len(t) : t[i] /= NL /\ (i = 1 \/ t[i - 1] = NL)}
LineAt(t, i) ==
    SubSeq(t, i, CHOOSE j \in i..Len(t) :
                     /\ \A m \in i..j : t[m] /= NL
                     /\ j = Len(t) \/ t[j + 1] = NL)

\* header lines of each kind (a documented synonym in some letter case, with
\* or without a colon) and body lines
HeaderLinesOf ==
    ( "summary"    :> { <<A("profile")>> } ) @@
    ( "experience" :> { <<A("EXPERIENCE")>>, <<A("Employment"), COLON>>,
                        <<A("Work"), SP, A("Experience")>> } ) @@
    ( "education"  :> { <<A("EDUCATION")>> } )

BodyLines ==
    { <<A("Engineer"), SP, A("with"), SP, A("experience")>>, <<A("Did"), SP, W("X, 2020-2023")>> }

\* C12: when a line of the text is a header of a kind (the first such line)
\* and a body line follows it, the body stored under that kind is that line,
\* also when a synonym word of the kind ends an earlier body line.
C12_HeaderIsolatesItsBody ==
    Detected =>
        LET t == resume_content.v IN
        \A kind \in DOMAIN HeaderLinesOf : \A i \in LineStarts(t) :
            ( /\ LineAt(t, i) \in HeaderLinesOf[kind]
              /\ \A j \in LineStarts(t) : j < i => LineAt(t, j) \notin HeaderLinesOf[kind]
              /\ \E n \in LineStarts(t) :
                    /\ n > i
                    /\ \A m \in LineStarts(t) : m > i => n <= m
                    /\ LineAt(t, n) \in BodyLines )
            => /\ IsDict(resume_sections)
               /\ HasKey(resume_sections, kind)
               /\ DictItem(resume_sections, kind) =
                      PStr(LineAt(t, CHOOSE n \in LineStarts(t) :
                                         n > i /\ \A m \in LineStarts(t) : m > i => n <= m))

\* --------------------------------------------------- prompts: the claims
\* the text sub occurs in t from position i on
Occurs(sub, t, i) == i + Len(sub) - 1 <= Len(t) /\ SubSeq(t, i, i + Len(sub) - 1) = sub

PromptBuilt == prompt /= NoAttr

\* C13: the optimization prompt holds the whole resume text; it holds the
\* tailoring clause, followed by the job description as given, exactly when a
\* non-empty job description was supplied (none for None or ""); the resume text
\* comes before the clause and the output-format description ends the prompt.
C13_OptimizationPromptContents ==
    (op = "optimize" /\ PromptBuilt) =>
        LET p == prompt.v
            r == resume_content.v
            supplied == IsStr(job_description) /\ job_description.v /= <<>>
        IN /\ p[Len(p)] = OptimizationFormat
           /\ \A i \in 1..(Len(p) - 1) : p[i] /= OptimizationFormat
           /\ \E i \in 1..Len(p) :
                /\ Occurs(r, p, i)
                /\ supplied =>
                     \E j \in (i + Len(r))..Len(p) : \E k \in (j + 1)..Len(p) :
                        /\ p[j] = JobClause
                        /\ Occurs(job_description.v, p, k)
                        /\ k + Len(job_description.v) <= Len(p)
           /\ ~supplied => \A j \in 1..Len(p) : p[j] /= JobClause

C13_Witness ==
    /\ op = "optimize"
    /\ PromptBuilt
    /\ job_description = PStr(<<W("Backend role"), NL, W("Python, SQL")>>)
    /\ resume_content.v = <<LBRACE, W("plain text"), RBRACE>>
    /\ \E j \in 1..Len(prompt.v) : prompt.v[j] = JobClause

\* the field is missing from the record or carries a null value
Absent(d, key) == ~IsDict(d) \/ ~HasKey(d, key) \/ DictItem(d, key) = PNone

\* the token that follows the label in the prompt
After(label, offset) ==
    prompt.v[(CHOOSE i \in 1..Len(prompt.v) : prompt.v[i] = W(label)) + offset]

\* C14: for a record whose optional contact or free-text fields are missing or
\* null, building the generation prompt does not fail, the prompt holds neither
\* "None" nor "null", and the segment of each such field is empty.
C14_MissingFieldsRenderEmpty ==
    (op = "generate" /\ user_info /= PNone) =>
        /\ pc /= "except"
        /\ PromptBuilt
        /\ \A i \in 1..Len(prompt.v) : prompt.v[i] \notin {W("None"), W("null"), L("null")}
        /\ LET contact == IF HasKey(user_info, "contact") THEN DictItem(user_info, "contact")
                          ELSE PNone
           IN /\ Absent(contact, "email") => After("Email: ", 1) = NL
              /\ Absent(contact, "phone") => After("Phone: ", 1) = NL
              /\ Absent(contact, "location") => After("Location: ", 1) = NL
              /\ Absent(user_info, "summary") => After("PROFESSIONAL SUMMARY:", 2) = NL
              /\ Absent(user_info, "skills") => After("SKILLS:", 2) = NL
              /\ Absent(user_info, "additional") => After("ADDITIONAL INFORMATION:", 2) = NL
              /\ Absent(user_info, "target_job") =>
                    \A i \in 1..Len(prompt.v) : prompt.v[i] /= W("TARGET JOB/ROLE: ")

\* ------------------------------------------------- rendering: the claims
\* the worker has written its output file
Rendered == pc = "notify"

\* the text of the file the worker wrote
OutputText == (CHOOSE f \in files : f.path = output_path).text

RECURSIVE SectionsText(_, _)
\* header line, 20 dashes, body and blank line of each of the items, in order
SectionsText(items, i) ==
    IF i > Len(items) THEN <<>>
    ELSE <<W(Upper(items[i][1])), NL, W("--------------------"), NL>>
         \o PyStr(items[i][2]) \o <<NL, NL>> \o SectionsText(items, i + 1)

Footer ==
    <<NL, W("----------------------------------------"), NL,
      W("Made with (heart) by robbie09 & lilian09")>>

\* the entries of the result mapping other than suggestions and improvements
Sections(x) ==
    IF IsDict(x) THEN SelectSeq(x.v, LAMBDA item : item[1] \notin {"suggestions", "improvements"})
    ELSE <<>>

\* C15 as stated: the output text is, for every entry of the result mapping in
\* insertion order other than suggestions and improvements, its upper-cased
\* name, 20 dashes, its body and a blank line, followed by the 40-dash line and
\* the attribution; every such entry appears.
C15_EverySectionRendered ==
    Rendered =>
        /\ \E f \in files : f.path = output_path
        /\ OutputText = SectionsText(Sections(result.val), 1) \o Footer

\* C15, amended: the same for the entries whose body is not empty; an entry
\* with an empty body is left out of the output, header included.
C15_NonEmptySectionsRendered ==
    Rendered =>
        /\ \E f \in files : f.path = output_path
        /\ OutputText =
              SectionsText(SelectSeq(Sections(result.val), LAMBDA item : Truthy(item[2])), 1)
              \o Footer

C15_Witness ==
    /\ Rendered
    /\ op = "generate"
    /\ sent.kind = "raw"
    /\ IsDict(result.val)
    /\ HasKey(result.val, "education")
    /\ DictItem(result.val, "education") = PStr(<<>>)
    /\ \E i \in 1..Len(OutputText) : OutputText[i] = W("EXPERIENCE")
    /\ \A i \in 1..Len(OutputText) : OutputText[i] /= W("EDUCATION")

\* the text t holds the tokens sub, in a row, somewhere after position i
HoldsAfter(t, i, sub) == \E j \in (i + 1)..Len(t) : Occurs(sub, t, j)

\* C16: when the recovered optimization result is {optimized_content: "X",
\* improvements: ["a"], suggestions: ["b"]}, the output file holds "X", the
\* line "- a" under an IMPROVEMENTS header, the line "- b" under a SUGGESTIONS
\* header, and the attribution footer.
C16_OutputFileListsImprovements ==
    (Rendered /\ op = "optimize" /\ result.val = FullOpt) =>
        /\ \E f \in files : f.path = output_path
        /\ HoldsAfter(OutputText, 0, <<W("X")>>)
        /\ \E i \in 1..Len(OutputText) :
              /\ OutputText[i] \in {W("IMPROVEMENTS"), W("IMPROVEMENTS MADE")}
              /\ HoldsAfter(OutputText, i, <<W("- "), W("a"), NL>>)
        /\ \E i \in 1..Len(OutputText) :
              /\ OutputText[i] \in {W("SUGGESTIONS"), W("ADDITIONAL SUGGESTIONS")}
              /\ HoldsAfter(OutputText, i, <<W("- "), W("b"), NL>>)
        /\ OutputText[Len(OutputText)] = W("Made with (heart) by robbie09 & lilian09")

\* the preview that lists the content "X", the improvement "a" and the
\* suggestion "b" under their headers
FullOptPreview ==
    <<W("X"), NL, NL,
      W("IMPROVEMENTS MADE"), NL, W("--------------------"), NL, W("- "), W("a"), NL, NL,
      W("ADDITIONAL SUGGESTIONS"), NL, W("--------------------"), NL, W("- "), W("b"), NL, NL>>

\* C16, amended: when the recovered optimization result is {optimized_content:
\* "X", improvements: ["a"], suggestions: ["b"]}, the output file the worker
\* writes holds "X" under the OPTIMIZED_CONTENT header and the attribution
\* footer and nothing else, and the preview the completion callback then shows
\* holds "X", the line "- a" under the IMPROVEMENTS MADE header and the line
\* "- b" under the ADDITIONAL SUGGESTIONS header.
C16_FileHoldsContentPreviewListsImprovements ==
    [][/\ (pc' = "notify" /\ op' = "optimize" /\ result'.val = FullOpt) =>
             /\ \E f \in files' : f.path = output_path'
             /\ (CHOOSE f \in files' : f.path = output_path').text =
                   <<W("OPTIMIZED_CONTENT"), NL, W("--------------------"), NL, W("X"), NL, NL>>
                   \o Footer
       /\ (RunComplete /\ Head(after_queue).op = "optimize"
                       /\ Head(after_queue).result = FullOpt) =>
             /\ preview' = FullOptPreview
             /\ tab' = "Preview"
             /\ callback_exc' = ""]_vars

C16_Witness ==
    /\ op = "optimize"
    /\ result.val = FullOpt
    /\ after_queue = <<>>
    /\ tab = "Preview"
    /\ preview = FullOptPreview
    /\ \E f \in files : f.path = output_path /\ HoldsAfter(f.text, 0, <<W("X")>>)

\* C17: no invocation overwrites the output file of another: whenever an
\* invocation writes its file, no file written before has the same path, also
\* when both reach the naming step within the same clock second.
C17_DistinctOutputPaths ==
    [][files' /= files => \A f \in files : f.path /= output_path']_vars

\* C18: when the error callback of a failed worker runs after the worker has
\* left its exception handler, it shows the error box with the failure.
C18_FailureReported ==
    [][(RunShowError /\ pc \notin {"except", "except exit"})
          => (dialog'.kind = "showerror" /\ callback_exc' = "")]_vars

\* C19: an envelope without a choices key and an envelope whose choices list
\* is empty are recovered alike, as the fallback for a reply text "": the
\* primary field is the empty string, the others the fixed literals.
C19_NoChoiceIsEmptyText ==
    (Recovered /\ sent.kind \in {"no_choices", "empty_choices"}) =>
        /\ op = "optimize" =>
             result = Ret(PDict(<<
                 <<"optimized_content", PStr(<<>>)>>,
                 <<"improvements", PList(<<PStr(<<W("AI-generated optimization")>>)>>)>>,
                 <<"suggestions", PList(<<PStr(<<W("Review the optimized resume carefully")>>)>>)>> >>))
        /\ op = "generate" =>
             result = Ret(PDict(<<
                 <<"summary", PStr(<<W("Professional Summary (AI-generated)")>>)>>,
                 <<"experience", PStr(<<>>)>>,
                 <<"education", PStr(<<>>)>>,
                 <<"skills", PStr(<<>>)>>,
                 <<"additional", PStr(<<W("Review and edit this AI-generated content.")>>)>> >>))

NoBrace(t) == \A i \in 1..Len(t) : t[i] \notin {LBRACE, RBRACE}

\* C20: when the substring from the first '{' to the last '}' of a generation
\* reply decodes, the result is the value under content if the decoded object
\* has that key and the decoded object otherwise; commentary without braces
\* around the JSON text of an object does not change this.
C20_GenerationUnwrapsContent ==
    (Recovered /\ op = "generate") =>
        /\ (sent.kind = "json" /\ NoBrace(sent.pre) /\ NoBrace(sent.post)) =>
              result = Ret(IF HasKey(sent.obj, "content") THEN DictItem(sent.obj, "content")
                           ELSE sent.obj)
        /\ (HasReplyText /\ HasBracePair(sent.text) /\ ~Undecodable(sent.text)) =>
              LET decoded == json_loads(BraceSpan(sent.text)).val IN
              result = Ret(IF HasKey(decoded, "content") THEN DictItem(decoded, "content")
                           ELSE decoded)

C20_Witness ==
    /\ Recovered
    /\ op = "generate"
    /\ sent.kind = "json"
    /\ sent.pre = <<W("Sure, here it is")>>
    /\ sent.post = <<W("Hope this helps")>>
    /\ sent.obj = PDict(<< <<"content", FullGen>> >>)
    /\ result = Ret(FullGen)

\* ------------------------------------------------ the client: more claims
\* C21: the client does not retry: with a credential configured, the one call
\* an operation makes has issued exactly one POST once it has returned or
\* raised, whether the outcome is a 200 reply, another status, a network
\* failure or a timeout, and the operation makes no second call.
C21_NoRetry ==
    /\ http_requests <= ops
    /\ (OPENROUTER_API_KEY /= "" /\ pc \notin {"prompt", "request"}) =>
          /\ http_requests = 1
          /\ http_response /= NoHttp

C21_Witness ==
    /\ OPENROUTER_API_KEY /= ""
    /\ pc = "except"
    /\ http_response.failure = "Timeout"
    /\ http_requests = 1

\* ------------------------------------------- detection: more claims
\* C22: when the first line of the text is a header of a kind and the rest of
\* the text is two or more body lines separated by single newlines, the body
\* stored under that kind is the whole rest of the text, with all its lines.
C22_WholeBodyStored ==
    Detected =>
        LET t == resume_content.v IN
        \A kind \in DOMAIN HeaderLinesOf :
            ( /\ 1 \in LineStarts(t)
              /\ LineAt(t, 1) \in HeaderLinesOf[kind]
              /\ Cardinality(LineStarts(t)) >= 3
              /\ \A n \in LineStarts(t) \ {1} : LineAt(t, n) \in BodyLines
              /\ \A m \in 1..(Len(t) - 1) : ~(t[m] = NL /\ t[m + 1] = NL) )
            => /\ IsDict(resume_sections)
               /\ HasKey(resume_sections, kind)
               /\ DictItem(resume_sections, kind) =
                      PStr(Strip(SubSeq(t, Len(LineAt(t, 1)) + 2, Len(t))))

\* C23: the text the header patterns are matched against has no run of more
\* than two newlines, and it is the uploaded text itself when that text has
\* single newlines only: a single newline between two lines is left single.
C23_SingleNewlinesKept ==
    Detected =>
        LET t == resume_content.v
            clean_text == CleanText(t, 1)
        IN /\ \A m \in 1..(Len(clean_text) - 2) :
                 ~(clean_text[m] = NL /\ clean_text[m + 1] = NL /\ clean_text[m + 2] = NL)
           /\ (\A m \in 1..(Len(t) - 1) : ~(t[m] = NL /\ t[m + 1] = NL)) => clean_text = t

\* ------------------------------------------- extraction: more claims
\* a PDF file was read and its text stored
PdfLoaded == Uploaded /\ OnlyReader("_parse_pdf") /\ resume_content /= NoAttr

RECURSIVE PagesLen(_, _)
\* the length of the first k pages together
PagesLen(pages, k) == IF k = 0 THEN 0 ELSE PagesLen(pages, k - 1) + Len(pages[k])

\* the text t holds page k of the pages, the earlier pages taking gaps(k)
\* newlines
PageAt(t, pages, k, gaps) ==
    LET from == PagesLen(pages, k - 1) + gaps IN
    /\ from + Len(pages[k]) <= Len(t)
    /\ SubSeq(t, from + 1, from + Len(pages[k])) = pages[k]

\* C24 as stated: the text of a PDF of n >= 1 pages is the page texts with a
\* newline between consecutive pages: n - 1 newlines, none after the last page.
C24_PagesSeparatedByNewline ==
    (PdfLoaded /\ Len(file_read.pages) >= 1) =>
        LET t == resume_content.v
            pages == file_read.pages
            n == Len(pages)
        IN /\ Len(t) = PagesLen(pages, n) + n - 1
           /\ \A k \in 1..n : PageAt(t, pages, k, k - 1)
           /\ \A k \in 1..(n - 1) : t[PagesLen(pages, k) + k] = NL

\* C24, amended: the text of a PDF of n pages is the page texts, each followed
\* by a newline: n newlines, the last of them after the last page.
C24_EachPageEndsWithNewline ==
    PdfLoaded =>
        LET t == resume_content.v
            pages == file_read.pages
            n == Len(pages)
        IN /\ Len(t) = PagesLen(pages, n) + n
           /\ \A k \in 1..n : PageAt(t, pages, k, k - 1)
           /\ \A k \in 1..n : t[PagesLen(pages, k) + k] = NL

C24_Witness ==
    /\ PdfLoaded
    /\ file_read.pages = <<Page1, Page2>>
    /\ resume_content = PStr(Page1 \o <<NL>> \o Page2 \o <<NL>>)

\* ------------------------------------------------ prompts: more claims
\* the generation prompt of the record in user_info has been built
GenerationPromptBuilt == PromptBuilt /\ op = "generate" /\ IsDict(user_info)

\* the style preferences a record supplies: its style entry if that is a
\* mapping, what its JSON text decodes to if it is such a text, else none
SuppliedStyle(info) ==
    IF ~HasKey(info, "style") THEN PDict(<<>>)
    ELSE LET style == DictItem(info, "style") IN
         IF IsDict(style) THEN style
         ELSE IF IsStr(style) /\ json_loads(style.v).exc = "" /\ IsDict(json_loads(style.v).val)
         THEN json_loads(style.v).val
         ELSE PDict(<<>>)

\* the value of a supplied preference, or the default if it is not supplied
Preference(info, key, default) ==
    IF HasKey(SuppliedStyle(info), key) THEN DictItem(SuppliedStyle(info), key) ELSE default

\* the prompt holds the line somewhere
HasLine(line) == \E i \in 1..Len(prompt.v) : Occurs(line, prompt.v, i)

\* C25: the generation prompt holds each of layout, length, tone and focus
\* with the value the style of the record supplies, be the style a mapping or
\* its JSON text, and with the default for a field that is not supplied.
C25_StylePreferencesSerialized ==
    GenerationPromptBuilt =>
        /\ HasLine(<<W("- Layout: ")>> \o PyStr(Preference(user_info, "layout", Lit("Traditional"))) \o <<NL>>)
        /\ HasLine(<<W("- Length: ")>> \o PyStr(Preference(user_info, "length", Lit("1-page"))) \o <<NL>>)
        /\ HasLine(<<W("- Tone: ")>> \o PyStr(Preference(user_info, "tone", Lit("Professional"))) \o <<NL>>)
        /\ HasLine(<<W("- Focus: ")>> \o PyStr(Preference(user_info, "focus", Lit("Experience"))) \o <<NL>>)

\* C26: the generation prompt holds the target-job clause exactly when the
\* record has a non-empty target_job, the clause on the summary exactly when
\* auto_summary is true and the clause on the skills exactly when auto_skills
\* is true (true when not supplied), and it ends with the output format.
C26_ConditionalClauses ==
    GenerationPromptBuilt =>
        /\ (\E i \in 1..Len(prompt.v) : prompt.v[i] = W("TARGET JOB/ROLE: "))
              <=> (HasKey(user_info, "target_job") /\ Truthy(DictItem(user_info, "target_job")))
        /\ HasLine(<<W("- Please enhance and polish the professional summary."), NL>>)
              <=> Preference(user_info, "auto_summary", PBool(TRUE)) = PBool(TRUE)
        /\ HasLine(<<W("- Please organize and categorize skills for better presentation."), NL>>)
              <=> Preference(user_info, "auto_skills", PBool(TRUE)) = PBool(TRUE)
        /\ prompt.v[Len(prompt.v)] = GenerationFormat

\* ------------------------------------------------- the worker: more claims
\* a callback of the kind is waiting to be run by the main loop
Scheduled(fn) == \E i \in 1..Len(after_queue) : after_queue[i].fn = fn

\* the client raised: no credential, a network failure or a status other than 200
RequestRaised ==
    /\ pc \notin {"prompt", "request"}
    /\ \/ OPENROUTER_API_KEY = ""
       \/ http_response.failure /= ""
       \/ http_response.status \notin {0, 200}

\* C27: in one worker the request comes after the prompt was built, the
\* recovery after the request returned a body, the output file after the
\* recovery and the completion callback after the file; when the credential
\* check or the request fails there is no recovery, no output file and no
\* completion callback.
C27_StepsInOrder ==
    /\ http_requests > 0 => prompt /= NoAttr
    /\ result /= Unset => (http_requests = 1 /\ http_response.status = 200 /\ response /= PNone)
    /\ files /= {} => (result /= Unset /\ result.exc = "")
    /\ (Scheduled("complete") \/ dialog.kind = "showinfo") =>
          \E f \in files : f.path = output_path
    /\ RequestRaised =>
          /\ result = Unset
          /\ files = {}
          /\ ~Scheduled("complete")
          /\ dialog.kind /= "showinfo"

C27_Witness ==
    /\ RequestRaised
    /\ http_response.status = 429
    /\ pc = "idle"
    /\ after_queue = <<>>
    /\ files = {}

\* what a thread may have scheduled so far: one outcome callback, then the closing
OutcomeThenClose ==
    { <<"complete", "destroy">>, <<"showerror", "destroy">> }

\* C28: every started worker ends having scheduled exactly one of the two outcome
\* callbacks (completion or error report), never both and never neither, followed by
\* the closing of its progress dialog, on the success path and on every failure path
C28_OneOutcomeThenClose ==
    /\ [](\E whole \in OutcomeThenClose \cup {<<>>} :
             \E n \in 0..Len(whole) : scheduled = SubSeq(whole, 1, n))
    /\ (pc /= "idle") ~> (pc = "idle" /\ scheduled \in OutcomeThenClose)

\* a worker whose request failed has ended with the error report and the closing scheduled
C28_Witness ==
    /\ pc = "idle"
    /\ http_response.status = 500
    /\ scheduled = <<"showerror", "destroy">>
    /\ Scheduled("destroy")

\* the step is an upload whose parsing raised: the path and the file are those of the
\* upload, and every other step leaves the loaded resume alone
UploadFailed ==
    /\ resume_file_path'.t = "str"
    /\ parse_document(resume_file_path'.v, file_read').exc /= ""

\* the attribute holds after the step what it held before
Kept(before, after) ==
    /\ after.t = before.t
    /\ before.t /= "unset" => after.v = before.v

BodyReturned == response /= PNone \/ pc \in {"recover", "render", "notify"}

\* C30: the client returns a parsed body only when the status is exactly 200; every
\* other status, 201 and 204 included, is raised as an error holding the status and
\* the body of the response
C30_OnlyStatus200Returns ==
    /\ BodyReturned => http_response.status = 200
    /\ (http_response.failure = "" /\ http_response.status \notin {0, 200}) =>
          /\ ~BodyReturned
          /\ result = Unset
          /\ pc = "except" =>
                /\ e.type = "ValueError"
                /\ Len(e.msg) = 3 + Len(http_response.text)
                /\ e.msg[2] = N(StatusStr(http_response.status))
                /\ SubSeq(e.msg, 4, Len(e.msg)) = http_response.text

\* a 201 response with a body has been raised as an error
C30_Witness ==
    /\ http_response.status = 201
    /\ http_response.text /= <<>>
    /\ pc = "except"
    /\ e.msg[2] = N("201")
    /\ ~BodyReturned

====
